---- MODULE Spec2Model ----
(***************************************************************************)
(* A model of coinlizard's price resolution core: the REST handlers        *)
(* (api/src/handler.rs), CoinService (api/src/service.rs), the two         *)
(* exchange connectors (connectors/src/coinbase.rs, binance.rs) and the    *)
(* PriceStore client (store/src/price_store.rs).                           *)
(*                                                                         *)
(* Every request is a process that moves from one await point of the       *)
(* service to the next.  The calls it makes to the store and to the        *)
(* connectors are recorded, in order, in calls[r].                         *)
(*                                                                         *)
(* Spec is the service with sample answers of the upstreams; CandleSpec    *)
(* is the history operation with every candle list of a bounded length;    *)
(* ErrorSpec is the handlers' error response for every kind of error;      *)
(* ConnectorSpec is the two connectors called on their own; ConcurrentSpec *)
(* is two requests in flight at once, FairSpec is a request whose awaited  *)
(* calls all return, and CaseSpec is two requests whose quote currencies   *)
(* are spelled in different letter case.                                   *)
(***************************************************************************)
EXTENDS Integers, Sequences, FiniteSets, TLC

\* ---------------------------------------------------------------- bounds

\* Readings of the wall clock (Utc::now()) lie in 0..MaxTime.
MaxTime == 1

\* ------------------------------------------------------- Option / Result

None == <<>>

Some(x) == <<x>>

IsSome(o) == Len(o) = 1

Unwrap(o) == o[1]

Ok(v) == [ok |-> TRUE, val |-> v]

Err(kind, msg) == [ok |-> FALSE, err |-> [kind |-> kind, msg |-> msg]]

\* The seven kinds of common::Error.
ErrorKinds ==
    {"HttpError", "DbError", "ExchangeError", "ParseError", "NotFound",
     "ConfigError", "InternalError"}

\* ------------------------------------------------------------ data model

Exchanges == {"coinbase", "binance"}

\* PriceInterval, named by its serde / Display token.
PriceIntervals == {"1m", "5m", "15m", "1h", "4h", "1d", "1w"}

\* Strings whose letter case matters are sequences of one-letter strings.
LowerLetters == <<"a", "b", "d", "e", "r", "s", "u">>

UpperLetters == <<"A", "B", "D", "E", "R", "S", "U">>

\* char::to_uppercase on the letters above; every other character is kept.
UpperChar(c) ==
    IF \E i \in 1..Len(LowerLetters) : LowerLetters[i] = c
      THEN UpperLetters[CHOOSE i \in 1..Len(LowerLetters) : LowerLetters[i] = c]
      ELSE c

\* to_uppercase leaving every letter as it is.
to_uppercase_kept(s) == s

\* str::to_uppercase
to_uppercase(s) == [i \in 1..Len(s) |-> UpperChar(s[i])]

Coin(id, name, symbol) == [id |-> id, name |-> name, symbol |-> symbol]

TradingPair(base, quote) == [base |-> base, quote |-> quote]

\* ---------------------------------------------------------- coin catalog

\* popular_coins with the id of Bitcoin given to Solana as well.
popular_coins_shared_id ==
    << Coin("bitcoin", "Bitcoin", "BTC"),
       Coin("ethereum", "Ethereum", "ETH"),
       Coin("ripple", "XRP", "XRP"),
       Coin("cardano", "Cardano", "ADA"),
       Coin("bitcoin", "Solana", "SOL") >>

\* The vector of coins CoinService::new inserts, in order.
popular_coins ==
    << Coin("bitcoin", "Bitcoin", "BTC"),
       Coin("ethereum", "Ethereum", "ETH"),
       Coin("ripple", "XRP", "XRP"),
       Coin("cardano", "Cardano", "ADA"),
       Coin("solana", "Solana", "SOL") >>

\* HashMap::insert: the entry for key k is replaced or added.
MapInsert(m, k, v) ==
    [x \in DOMAIN m \cup {k} |-> IF x = k THEN v ELSE m[x]]

\* CoinKey with the ticker symbol as the key.
CoinKeySymbol(coin) == coin.symbol

\* coins.insert(coin.id.clone(), coin): the key of a catalog entry.
CoinKey(coin) == coin.id

\* for coin in popular_coins { coins.insert(..) }
RECURSIVE InsertAll(_, _, _)
InsertAll(m, cs, i) ==
    IF i > Len(cs) THEN m
    ELSE InsertAll(MapInsert(m, CoinKey(cs[i]), cs[i]), cs, i + 1)

\* CoinService::new: the catalog, keyed by coin id.
CoinServiceNew == InsertAll(<<>>, popular_coins, 1)

\* get_coin answering an unknown id with a coin made up from the id.
get_coin_lenient(m, id) ==
    IF id \in DOMAIN m THEN Ok(m[id]) ELSE Ok(Coin(id, id, id))

\* CoinService::get_coin on the catalog m.
get_coin(m, id) ==
    IF id \in DOMAIN m THEN Ok(m[id])
    ELSE Err("NotFound", <<"Coin with ID not found", id>>)

\* CoinService::list_coins: the values of the map (a set: order unspecified).
list_coins(m) == {m[k] : k \in DOMAIN m}

\* self.coins.values().cloned().collect(): the vectors list_coins can
\* return, one for every order the HashMap may iterate in.
ValuesInAnyOrder(m) ==
    {v \in [1..Cardinality(DOMAIN m) -> list_coins(m)] :
        \A i, j \in DOMAIN v : i # j => v[i] # v[j]}

\* ------------------------------------------------------------------ time

\* A DateTime<Utc>: whole seconds since the epoch and the milliseconds in
\* the second.
DateTime(s, ms) == [s |-> s, ms |-> ms]

\* Ord on DateTime.
TimeLess(a, b) == a.s < b.s \/ (a.s = b.s /\ a.ms < b.ms)

\* chrono represents the seconds -ChronoMaxSecs..ChronoMaxSecs (the range is
\* scaled down here; chrono's is about 8.2 * 10^12 seconds).
ChronoMaxSecs == 2000000

\* DateTime::timestamp_nanos fits an i64 for the seconds
\* -NanosMaxSecs..NanosMaxSecs only (scaled down like ChronoMaxSecs; about
\* 9.2 * 10^9 seconds).  Outside of them it panics, or wraps around in a
\* release build of an older chrono.
NanosMaxSecs == 1000000

timestamp_nanos_overflows(t) == t.s < -NanosMaxSecs \/ t.s > NanosMaxSecs

\* Utc.timestamp_opt(ts, 0): None outside chrono's range.
timestamp_opt(ts) ==
    IF -ChronoMaxSecs <= ts /\ ts <= ChronoMaxSecs
      THEN Some(DateTime(ts, 0)) ELSE None

\* Utc.timestamp_millis_opt(ts)
timestamp_millis_opt(ts) ==
    IF -ChronoMaxSecs <= ts \div 1000 /\ ts \div 1000 <= ChronoMaxSecs
      THEN Some(DateTime(ts \div 1000, ts % 1000)) ELSE None

\* coinbase_granularity with the weekly candle as long as the daily one.
coinbase_granularity_week_as_day(interval) ==
    CASE interval = "1m" -> 60
      [] interval = "5m" -> 300
      [] interval = "15m" -> 900
      [] interval = "1h" -> 3600
      [] interval = "4h" -> 14400
      [] interval = "1d" -> 86400
      [] interval = "1w" -> 86400

\* The duration of one candle, in seconds.
coinbase_granularity(interval) ==
    CASE interval = "1m" -> 60
      [] interval = "5m" -> 300
      [] interval = "15m" -> 900
      [] interval = "1h" -> 3600
      [] interval = "4h" -> 14400
      [] interval = "1d" -> 86400
      [] interval = "1w" -> 604800

\* --------------------------------------------------------- upstream JSON

\* serde_json::Value, as far as the connectors look at it.
JInt(n) == [t |-> "int", i |-> n]

JStr(s) == [t |-> "str", s |-> s]

JFloat(x) == [t |-> "float", f |-> x]

JNull == [t |-> "null"]

as_i64(j) == IF j.t = "int" THEN Some(j.i) ELSE None

as_str(j) == IF j.t = "str" THEN Some(j.s) ELSE None

\* as_f64 reading null as the number 0.
as_f64_null_is_zero(j) ==
    IF j.t = "int" THEN Some(j.i)
    ELSE IF j.t = "float" THEN Some(j.f)
    ELSE IF j.t = "null" THEN Some(0)
    ELSE None

as_f64(j) ==
    IF j.t = "int" THEN Some(j.i)
    ELSE IF j.t = "float" THEN Some(j.f)
    ELSE None

\* The decimal strings of the model and the f64 each one parses to (prices
\* and volumes are whole numbers here); every other string fails to parse.
F64Strings ==
    "50000.0" :> 50000 @@ "50100.0" :> 50100 @@ "2.0" :> 2 @@ "3.0" :> 3

\* str::parse::<f64>
parse_f64(s) ==
    IF s \in DOMAIN F64Strings THEN Ok(F64Strings[s])
    ELSE Err("ParseError", <<"invalid float literal", s>>)

\* An HTTP exchange with an upstream: the transport fails, or a status and
\* a body arrive.
HttpFail == [transport |-> "fail", status |-> 0, body |-> [wf |-> FALSE]]

HttpResponse(status, body) ==
    [transport |-> "ok", status |-> status, body |-> body]

\* Display of a StatusCode, for the statuses the model's upstreams answer.
StatusText(status) ==
    CASE status = 200 -> "200 OK"
      [] status = 429 -> "429 Too Many Requests"
      [] status = 500 -> "500 Internal Server Error"
      [] OTHER -> "status"

\* StatusCode::is_success
is_success(status) == 200 <= status /\ status < 300

\* A JSON body that does not deserialize into the expected type; a body
\* that does has wf = TRUE and the fields of that type.
Malformed == [wf |-> FALSE]

\* -------------------------------------------------- connectors: spot price

CurrentPrice(exchange, pair, price, volume_24h, timestamp) ==
    [exchange |-> exchange, pair |-> pair, price |-> price,
     volume_24h |-> volume_24h, timestamp |-> timestamp]

\* CoinbaseConnector::get_current_price; resp is the upstream's answer (its
\* body, when well formed, carries amount, a string) and now the clock reading.
CoinbaseGetCurrentPrice(pair, resp, now) ==
    IF resp.transport = "fail"
      THEN Err("HttpError", <<"coinbase", "transport">>)
    ELSE IF ~is_success(resp.status)
      THEN Err("ExchangeError", <<"Coinbase API error", StatusText(resp.status)>>)
    ELSE IF ~resp.body.wf
      THEN Err("ParseError", <<"Failed to parse Coinbase response">>)
    ELSE IF ~parse_f64(resp.body.amount).ok
      THEN Err("ParseError", <<"Failed to parse price">>)
    ELSE Ok(CurrentPrice("coinbase", pair, parse_f64(resp.body.amount).val,
                         None, now))

\* BinanceConnector::get_current_price; a well-formed body carries the
\* strings lastPrice and volume.
BinanceGetCurrentPrice(pair, resp, now) ==
    IF resp.transport = "fail"
      THEN Err("HttpError", <<"binance", "transport">>)
    ELSE IF ~is_success(resp.status)
      THEN Err("ExchangeError", <<"Binance API error", StatusText(resp.status)>>)
    ELSE IF ~resp.body.wf
      THEN Err("ParseError", <<"Failed to parse Binance response">>)
    ELSE IF ~parse_f64(resp.body.lastPrice).ok
      THEN Err("ParseError", <<"Failed to parse price">>)
    ELSE LET price == parse_f64(resp.body.lastPrice).val
             vol == parse_f64(resp.body.volume)
             volume == IF vol.ok THEN Some(vol.val * price) ELSE None
         IN Ok(CurrentPrice("binance", pair, price, volume, now))

\* ------------------------------------------------ connectors: candles

PriceHistoryPoint(timestamp, price, volume) ==
    [timestamp |-> timestamp, price |-> price, volume |-> volume]

PriceHistory(exchange, pair, interval, data) ==
    [exchange |-> exchange, pair |-> pair, interval |-> interval,
     data |-> data]

\* A panic (a failed unwrap) unwinds the task: no value is returned.
Panic(msg) == [ok |-> FALSE, err |-> [kind |-> "panic", msg |-> msg]]

IsPanic(r) == ~r.ok /\ r.err.kind = "panic"

\* What one iteration of the candle loop does with its candle.
Skip == [step |-> "continue"]

Push(point) == [step |-> "push", point |-> point]

Unwind == [step |-> "panic"]

\* The body of the loop of CoinbaseConnector::get_price_history: the candle
\* is [time, low, high, open, close, volume].
CoinbaseCandle(candle) ==
    IF Len(candle) < 6 THEN Skip
    ELSE IF ~IsSome(as_i64(candle[1])) THEN Skip
    ELSE IF ~IsSome(timestamp_opt(Unwrap(as_i64(candle[1])))) THEN Unwind
    ELSE LET timestamp == Unwrap(timestamp_opt(Unwrap(as_i64(candle[1]))))
             close == candle[5]
             vol == candle[6]
             close_price ==
                 IF IsSome(as_str(close)) THEN
                     IF parse_f64(Unwrap(as_str(close))).ok
                       THEN Some(parse_f64(Unwrap(as_str(close))).val)
                       ELSE None
                 ELSE as_f64(close)
             volume ==
                 IF IsSome(as_str(vol)) THEN
                     IF parse_f64(Unwrap(as_str(vol))).ok
                       THEN Some(parse_f64(Unwrap(as_str(vol))).val)
                       ELSE None
                 ELSE as_f64(vol)
         IN IF ~IsSome(close_price) THEN Skip
            ELSE Push(PriceHistoryPoint(timestamp, Unwrap(close_price), volume))

\* The body of the loop of BinanceConnector::get_price_history: the candle
\* is [open time (ms), open, high, low, close, volume, ...].
BinanceCandle(candle) ==
    IF Len(candle) < 6 THEN Skip
    ELSE IF ~IsSome(as_i64(candle[1])) THEN Skip
    ELSE IF ~IsSome(timestamp_millis_opt(Unwrap(as_i64(candle[1])))) THEN Unwind
    ELSE LET timestamp ==
                 Unwrap(timestamp_millis_opt(Unwrap(as_i64(candle[1]))))
             close == candle[5]
             vol == candle[6]
             close_price ==
                 IF IsSome(as_str(close)) /\ parse_f64(Unwrap(as_str(close))).ok
                   THEN Some(parse_f64(Unwrap(as_str(close))).val)
                   ELSE None
             volume ==
                 IF IsSome(as_str(vol)) /\ parse_f64(Unwrap(as_str(vol))).ok
                   THEN Some(parse_f64(Unwrap(as_str(vol))).val)
                   ELSE None
         IN IF ~IsSome(close_price) THEN Skip
            ELSE Push(PriceHistoryPoint(timestamp, Unwrap(close_price), volume))

\* The candle loop: the points pushed, in the upstream's order, or a panic
\* at the first candle that unwinds.  steps[i] is the outcome of candle i.
RECURSIVE CandleLoop(_, _, _)
CandleLoop(steps, i, data_points) ==
    IF i > Len(steps) THEN [panic |-> FALSE, data |-> data_points]
    ELSE IF steps[i].step = "panic" THEN [panic |-> TRUE, data |-> <<>>]
    ELSE IF steps[i].step = "push"
      THEN CandleLoop(steps, i + 1, Append(data_points, steps[i].point))
    ELSE CandleLoop(steps, i + 1, data_points)

\* Where a stable sort, newest first, puts p in the sorted sequence s: after
\* every point that is not older than p.
RECURSIVE InsertDesc(_, _)
InsertDesc(s, p) ==
    IF s = <<>> THEN <<p>>
    ELSE IF TimeLess(s[Len(s)].timestamp, p.timestamp)
      THEN Append(InsertDesc(SubSeq(s, 1, Len(s) - 1), p), s[Len(s)])
    ELSE Append(s, p)

\* sort_by_desc with the sort left out: the points stay in upstream order.
sort_by_skipped(s) == s

\* data_points.sort_by(|a, b| b.timestamp.cmp(&a.timestamp)): a stable sort.
RECURSIVE sort_by_desc(_)
sort_by_desc(s) ==
    IF s = <<>> THEN <<>>
    ELSE InsertDesc(sort_by_desc(SubSeq(s, 1, Len(s) - 1)), s[Len(s)])

\* Vec::truncate
truncate(s, n) == IF n < Len(s) THEN SubSeq(s, 1, n) ELSE s

\* CoinbaseConnector::get_price_history, given the upstream's answer; a
\* well-formed body carries candles, a sequence of sequences of JSON values.
CoinbaseGetPriceHistory(pair, interval, limit, resp) ==
    IF resp.transport = "fail"
      THEN Err("HttpError", <<"coinbase", "transport">>)
    ELSE IF ~is_success(resp.status)
      THEN Err("ExchangeError", <<"Coinbase API error", StatusText(resp.status)>>)
    ELSE IF ~resp.body.wf
      THEN Err("ParseError", <<"Failed to parse Coinbase candles">>)
    ELSE LET candles == resp.body.candles
             loop == CandleLoop([i \in 1..Len(candles) |->
                                    CoinbaseCandle(candles[i])], 1, <<>>)
             sorted == sort_by_desc(loop.data)
             data == IF IsSome(limit) THEN truncate(sorted, Unwrap(limit))
                     ELSE sorted
         IN IF loop.panic THEN Panic(<<"coinbase", "timestamp_opt">>)
            ELSE Ok(PriceHistory("coinbase", pair, interval, data))

\* BinanceGetPriceHistory with the tag of the Coinbase connector left in.
BinanceGetPriceHistoryTaggedCoinbase(pair, interval, limit, resp) ==
    IF resp.transport = "fail"
      THEN Err("HttpError", <<"binance", "transport">>)
    ELSE IF ~is_success(resp.status)
      THEN Err("ExchangeError", <<"Binance API error", StatusText(resp.status)>>)
    ELSE IF ~resp.body.wf
      THEN Err("ParseError", <<"Failed to parse Binance candles">>)
    ELSE LET candles == resp.body.candles
             loop == CandleLoop([i \in 1..Len(candles) |->
                                    BinanceCandle(candles[i])], 1, <<>>)
         IN IF loop.panic THEN Panic(<<"binance", "timestamp_millis_opt">>)
            ELSE Ok(PriceHistory("coinbase", pair, interval,
                                 sort_by_desc(loop.data)))

\* BinanceConnector::get_price_history, given the upstream's answer.
BinanceGetPriceHistory(pair, interval, limit, resp) ==
    IF resp.transport = "fail"
      THEN Err("HttpError", <<"binance", "transport">>)
    ELSE IF ~is_success(resp.status)
      THEN Err("ExchangeError", <<"Binance API error", StatusText(resp.status)>>)
    ELSE IF ~resp.body.wf
      THEN Err("ParseError", <<"Failed to parse Binance candles">>)
    ELSE LET candles == resp.body.candles
             loop == CandleLoop([i \in 1..Len(candles) |->
                                    BinanceCandle(candles[i])], 1, <<>>)
         IN IF loop.panic THEN Panic(<<"binance", "timestamp_millis_opt">>)
            ELSE Ok(PriceHistory("binance", pair, interval,
                                 sort_by_desc(loop.data)))

\* ------------------------------------------------------------ PriceStore

\* A StoreError; the service never looks at its kind.
StoreErr(kind) == [ok |-> FALSE, err |-> [kind |-> kind, msg |-> <<"store">>]]

\* PriceStore::store_current_price and store_price_history build the points
\* and write them to the database: the write succeeds or fails.
StoreWriteOutcomes == {Ok(<<>>), StoreErr("InfluxDbError")}

\* PriceStore::store_current_price(price): building the point takes
\* price.timestamp.timestamp_nanos(), which may panic.
StoreCurrentPriceOutcomes(price) ==
    StoreWriteOutcomes
      \cup (IF timestamp_nanos_overflows(price.timestamp)
              THEN {Panic(<<"store", "timestamp_nanos">>)} ELSE {})

\* PriceStore::store_price_history(history): one point is built for every
\* point of the history, each with timestamp_nanos().
StorePriceHistoryOutcomes(history) ==
    StoreWriteOutcomes
      \cup (IF \E i \in 1..Len(history.data) :
                 timestamp_nanos_overflows(history.data[i].timestamp)
              THEN {Panic(<<"store", "timestamp_nanos">>)} ELSE {})

\* StoreGetCurrentPrice answering both entries whatever exchange is asked.
StoreGetCurrentPriceUnfiltered(pair, exchange, now, later) ==
    Ok(<< CurrentPrice("coinbase", pair, 50000, Some(1234), now),
          CurrentPrice("binance", pair, 50100, Some(2345), later) >>)

\* PriceStore::get_current_price as shipped: the query string is built and
\* never executed, and simulated prices are answered (the volumes 1234.56
\* and 2345.67 are kept as whole numbers).  Every entry is stamped with its
\* own reading of the clock: now is the first reading, later the second.
StoreGetCurrentPrice(pair, exchange, now, later) ==
    IF exchange = Some("coinbase")
      THEN Ok(<< CurrentPrice("coinbase", pair, 50000, Some(1234), now) >>)
    ELSE IF exchange = Some("binance")
      THEN Ok(<< CurrentPrice("binance", pair, 50100, Some(2345), now) >>)
    ELSE Ok(<< CurrentPrice("coinbase", pair, 50000, Some(1234), now),
               CurrentPrice("binance", pair, 50100, Some(2345), later) >>)

PriceQuery(pair, exchange, interval, start_time, end_time, limit) ==
    [pair |-> pair, exchange |-> exchange, interval |-> interval,
     start_time |-> start_time, end_time |-> end_time, limit |-> limit]

Min(a, b) == IF a < b THEN a ELSE b

\* StoreGetPriceHistory with `unwrap_or(0)`: no points when no limit is given.
StoreGetPriceHistoryDefaultEmpty(query, now) ==
    LET limit == IF IsSome(query.limit) THEN Unwrap(query.limit) ELSE 0
        data_points ==
            [k \in 1..Min(limit, 10) |->
                PriceHistoryPoint(
                    DateTime(now.s - coinbase_granularity(query.interval)
                                       * (k - 1), now.ms),
                    49750 + 50 * (k - 1),
                    Some(1000 + (k - 1) * 100))]
        exchange == IF IsSome(query.exchange) THEN Unwrap(query.exchange)
                    ELSE "coinbase"
    IN Ok(PriceHistory(exchange, query.pair, query.interval, data_points))

\* PriceStore::get_price_history as shipped: min(limit, 10) simulated
\* points, one interval apart, the newest at the clock reading.  The price
\* of point i is 50000 * (1 + i * 0.001 - 0.005).
StoreGetPriceHistory(query, now) ==
    LET time_step_seconds == coinbase_granularity(query.interval)
        limit == IF IsSome(query.limit) THEN Unwrap(query.limit) ELSE 10
        data_points ==
            [k \in 1..Min(limit, 10) |->
                PriceHistoryPoint(
                    DateTime(now.s - time_step_seconds * (k - 1), now.ms),
                    49750 + 50 * (k - 1),
                    Some(1000 + (k - 1) * 100))]
        exchange == IF IsSome(query.exchange) THEN Unwrap(query.exchange)
                    ELSE "coinbase"
    IN Ok(PriceHistory(exchange, query.pair, query.interval, data_points))

\* What a PriceStore that executes its query can answer for a current
\* price: a failure, or the latest snapshot of each exchange that has one
\* (of the requested exchange only, when one is requested).
QueryCurrentPriceOutcomes(pair, exchange, now, later) ==
    LET cb == CurrentPrice("coinbase", pair, 50000, Some(1234), now)
        bn == CurrentPrice("binance", pair, 50100, Some(2345), later)
    IN {StoreErr("QueryError"), Ok(<<>>)}
         \cup (IF exchange # Some("binance") THEN {Ok(<<cb>>)} ELSE {})
         \cup (IF exchange # Some("coinbase") THEN {Ok(<<bn>>)} ELSE {})
         \cup (IF exchange = None THEN {Ok(<<cb, bn>>)} ELSE {})

\* The timestamp t lies in the time range of the query.
InQueryRange(query, t) ==
    /\ IsSome(query.start_time) => ~TimeLess(t, Unwrap(query.start_time))
    /\ IsSome(query.end_time) => ~TimeLess(Unwrap(query.end_time), t)

\* What a PriceStore that executes its query can answer for a history: a
\* failure, or the stored points of the range, newest first, at most limit
\* of them.
QueryPriceHistoryOutcomes(query, now) ==
    LET stored == StoreGetPriceHistory(query, now).val.data
        InRange(p) == InQueryRange(query, p.timestamp)
        all == SelectSeq(stored, InRange)
        tagged(ex, n) ==
            Ok(PriceHistory(ex, query.pair, query.interval,
                            truncate(all, n)))
        exs == IF IsSome(query.exchange) THEN {Unwrap(query.exchange)}
               ELSE Exchanges
    IN {StoreErr("QueryError")}
         \cup {tagged(ex, n) : ex \in exs, n \in 0..2}

\* ----------------------------------------------------------------- state

VARIABLES
    coins,        \* CoinService.coins: the catalog, coin id -> Coin
    store_reads,  \* how PriceStore answers reads: "simulated" (as shipped)
                  \* or "query" (the query it builds is executed)
    pc,           \* per request: the call it awaits, or idle / done / panicked
    args,         \* per request: the parameters the handler received
    local,        \* per request: the locals of the service method
    result,       \* per request: None, or Some(the Result the service returned)
    response,     \* per request: None, or Some(the HTTP response of the handler)
    calls,        \* per request: the store and connector calls made, in order
    lock          \* the RwLock around the service: the requests that hold a
                  \* read guard, and the request that holds the write guard

vars == <<coins, store_reads, pc, args, local, result, response, calls, lock>>

Requests == DOMAIN pc

\* ---------------------------------------------------------------- inputs

\* Limits of a history request are None or Some(0..MaxLimit).
MaxLimit == 2

CoinIds == {"bitcoin", "ethereum", "ripple", "cardano", "solana",
            "doesnotexist", "BTC"}

Currencies == {None, Some(<<"u", "s", "d">>), Some(<<"E", "u", "r">>)}

ExchangeParams == {None, Some("coinbase"), Some("binance"), Some("kraken")}

IntervalParams == {None, Some("1h"), Some("2h")}

Limits == {None} \cup {Some(n) : n \in 0..MaxLimit}

StartTimes == {None}

EndTimes == {None, Some(DateTime(0, 0))}

Times == {DateTime(t, 0) : t \in 0..MaxTime}

\* Answers of the Coinbase spot endpoint.
CoinbaseSpotResponses ==
    {HttpFail, HttpResponse(500, Malformed), HttpResponse(200, Malformed),
     HttpResponse(200, [wf |-> TRUE, amount |-> "50000.0"]),
     HttpResponse(200, [wf |-> TRUE, amount |-> "50100.0"]),
     HttpResponse(200, [wf |-> TRUE, amount |-> "n/a"])}

\* Answers of the Binance 24hr ticker endpoint.
BinanceTickerResponses ==
    {HttpFail, HttpResponse(429, Malformed), HttpResponse(200, Malformed),
     HttpResponse(200, [wf |-> TRUE, lastPrice |-> "50100.0", volume |-> "2.0"]),
     HttpResponse(200, [wf |-> TRUE, lastPrice |-> "50000.0", volume |-> "n/a"]),
     HttpResponse(200, [wf |-> TRUE, lastPrice |-> "n/a", volume |-> "2.0"])}

Candles(body) == HttpResponse(200, [wf |-> TRUE, candles |-> body])

\* A Coinbase candle [time, low, high, open, close, volume].
CbCandle(time, close, volume) ==
    <<time, JFloat(49000), JFloat(51000), JFloat(50000), close, volume>>

\* Answers of the Coinbase candles endpoint.
CoinbaseCandleResponses ==
    {HttpFail, HttpResponse(500, Malformed), HttpResponse(200, Malformed),
     Candles(<<>>),
     Candles(<< CbCandle(JInt(60), JFloat(50000), JFloat(2)) >>),
     Candles(<< CbCandle(JInt(60), JStr("50000.0"), JStr("n/a")),
                <<JInt(90), JNull>>,
                CbCandle(JInt(120), JFloat(50100), JFloat(3)),
                CbCandle(JInt(60), JFloat(50100), JNull) >>),
     Candles(<< CbCandle(JInt(NanosMaxSecs + 60), JFloat(50000), JFloat(2)) >>),
     Candles(<< CbCandle(JInt(ChronoMaxSecs + 1), JFloat(50000), JFloat(2)) >>)}

\* A Binance kline [open time, open, high, low, close, volume, close time].
BnCandle(time, close, volume) ==
    <<time, JStr("50000.0"), JStr("50100.0"), JStr("50000.0"), close, volume,
      JInt(0)>>

\* Answers of the Binance klines endpoint.
BinanceCandleResponses ==
    {HttpFail, HttpResponse(429, Malformed), HttpResponse(200, Malformed),
     Candles(<<>>),
     Candles(<< BnCandle(JInt(60000), JStr("50000.0"), JStr("2.0")) >>),
     Candles(<< BnCandle(JInt(60000), JStr("50000.0"), JStr("n/a")),
                BnCandle(JInt(120500), JStr("50100.0"), JStr("3.0")),
                BnCandle(JStr("180000"), JStr("50100.0"), JStr("3.0")),
                BnCandle(JInt(120000), JFloat(50100), JStr("3.0")),
                BnCandle(JInt(120000), JStr("50000.0"), JStr("3.0")) >>),
     Candles(<< BnCandle(JInt((NanosMaxSecs + 60) * 1000), JStr("50000.0"),
                         JStr("2.0")) >>),
     Candles(<< BnCandle(JInt(-(ChronoMaxSecs + 1) * 1000), JStr("50000.0"),
                         JStr("2.0")) >>)}

\* Candle lists of any content and order have at most MaxCandles candles.
MaxCandles == 3

\* The sequences over S of at most n elements.
SeqsUpTo(S, n) == UNION {[1..k -> S] : k \in 0..n}

\* The candles a Coinbase list is made of: two times, a second candle of
\* the first time, a short candle, a candle with an unparsable close, a
\* candle whose time is not an integer, and a candle whose time is an
\* integer that chrono does not represent.
CoinbaseCandleKinds ==
    {CbCandle(JInt(60), JFloat(50000), JFloat(2)),
     CbCandle(JInt(120), JStr("50100.0"), JStr("n/a")),
     CbCandle(JInt(60), JFloat(50100), JNull),
     <<JInt(90), JNull>>,
     CbCandle(JInt(180), JStr("n/a"), JFloat(3)),
     CbCandle(JStr("240"), JFloat(50000), JFloat(2)),
     CbCandle(JInt(ChronoMaxSecs + 1), JFloat(50000), JFloat(2))}

\* Every answer of the Coinbase candles endpoint with such candles.
CoinbaseCandleLists ==
    {Candles(l) : l \in SeqsUpTo(CoinbaseCandleKinds, MaxCandles)}

\* The same for Binance, whose times are milliseconds and whose prices are
\* strings (a close that is a JSON number is not read).
BinanceCandleKinds ==
    {BnCandle(JInt(60000), JStr("50000.0"), JStr("2.0")),
     BnCandle(JInt(120500), JStr("50100.0"), JStr("n/a")),
     BnCandle(JInt(60000), JStr("50100.0"), JNull),
     <<JInt(90000), JNull>>,
     BnCandle(JInt(180000), JFloat(50100), JStr("3.0")),
     BnCandle(JStr("240000"), JStr("50000.0"), JStr("2.0")),
     BnCandle(JInt((ChronoMaxSecs + 1) * 1000), JStr("50000.0"), JStr("2.0"))}

BinanceCandleLists ==
    {Candles(l) : l \in SeqsUpTo(BinanceCandleKinds, MaxCandles)}

\* ------------------------------------------------------------------ Init

\* RwLock::new: no guard is out.
RwLockNew == [readers |-> {}, writer |-> None]


NoArgs ==
    [op |-> "none", coin_id |-> "", currency |-> None, exchange |-> None,
     interval |-> None, start |-> None, end |-> None, limit |-> None]

NoLocal ==
    [coin |-> Coin("", "", ""), pair |-> TradingPair("", <<>>),
     exchange |-> None, interval |-> "1d", prices |-> <<>>, fetched |-> None,
     from |-> ""]

\* The service is constructed and the requests of rs have not arrived.
InitFor(rs) ==
    /\ coins = CoinServiceNew
    /\ store_reads \in {"simulated", "query"}
    /\ pc = [r \in rs |-> "idle"]
    /\ args = [r \in rs |-> NoArgs]
    /\ local = [r \in rs |-> NoLocal]
    /\ result = [r \in rs |-> None]
    /\ response = [r \in rs |-> None]
    /\ calls = [r \in rs |-> <<>>]
    /\ lock = RwLockNew

Init == InitFor({1})

\* -------------------------------------------------------------- handlers

\* ParseExchange taking an unknown exchange for no exchange.
ParseExchangeLenient(param) ==
    IF param = None THEN Ok(None)
    ELSE IF Unwrap(param) = "coinbase" THEN Ok(Some("coinbase"))
    ELSE IF Unwrap(param) = "binance" THEN Ok(Some("binance"))
    ELSE Ok(None)

\* The match on query.exchange of both handlers.
ParseExchange(param) ==
    IF param = None THEN Ok(None)
    ELSE IF Unwrap(param) = "coinbase" THEN Ok(Some("coinbase"))
    ELSE IF Unwrap(param) = "binance" THEN Ok(Some("binance"))
    ELSE Err("ParseError", <<"Unknown exchange", Unwrap(param)>>)

\* The match on query.interval of the history handler.
ParseInterval(param) ==
    IF param = None THEN Ok("1d")
    ELSE IF Unwrap(param) \in {"1m", "5m", "15m", "1h", "4h", "1d", "1w"}
      THEN Ok(Unwrap(param))
    ELSE Err("ParseError", <<"Unknown interval", Unwrap(param)>>)

\* query.currency.unwrap_or_else(|| "USD".to_string())
CurrencyOrDefault(currency) ==
    IF IsSome(currency) THEN Unwrap(currency) ELSE <<"U", "S", "D">>

\* One record of calls[r]: the call made, what it was given, what it
\* returned.
Call(fn, arg, ret) == [fn |-> fn, arg |-> arg, ret |-> ret]

\* The record of a connector call: resp is what the upstream answered to
\* the one GET the connector issued.
UpstreamCall(fn, arg, resp, ret) ==
    [fn |-> fn, arg |-> arg, resp |-> resp, ret |-> ret]

\* The status codes ApiError::into_response and Json use.
StatusCodes ==
    [OK |-> 200, BAD_REQUEST |-> 400, NOT_FOUND |-> 404,
     INTERNAL_SERVER_ERROR |-> 500, BAD_GATEWAY |-> 502]

\* ApiErrorIntoResponse with one arm for every kind.
ApiErrorInternalOnly(err) ==
    [status |-> StatusCodes.INTERNAL_SERVER_ERROR, error |-> err.msg]

\* ApiError::into_response: the status and the message of the error body.
ApiErrorIntoResponse(err) ==
    CASE err.kind = "NotFound" ->
           [status |-> StatusCodes.NOT_FOUND, error |-> err.msg]
      [] err.kind = "ExchangeError" ->
           [status |-> StatusCodes.BAD_GATEWAY, error |-> err.msg]
      [] err.kind = "ParseError" ->
           [status |-> StatusCodes.BAD_REQUEST, error |-> err.msg]
      [] err.kind = "DbError" ->
           [status |-> StatusCodes.INTERNAL_SERVER_ERROR, error |-> err.msg]
      [] err.kind = "HttpError" ->
           [status |-> StatusCodes.BAD_GATEWAY,
            error |-> <<"External API request failed">> \o err.msg]
      [] err.kind = "ConfigError" ->
           [status |-> StatusCodes.INTERNAL_SERVER_ERROR, error |-> err.msg]
      [] err.kind = "InternalError" ->
           [status |-> StatusCodes.INTERNAL_SERVER_ERROR, error |-> err.msg]

\* What a handler answers for the Result of its service call: Ok(Json(v))
\* or the ApiError made from the error.
HandlerResponse(res) ==
    IF res.ok THEN [status |-> StatusCodes.OK, json |-> res.val]
    ELSE ApiErrorIntoResponse(res.err)

\* HandlerLockMode with the guard taken by service.write().
HandlerLockModeWrite == "write"

\* `let service = service.read().await;`, the first line of every handler.
HandlerLockMode == "read"

\* RwLock::read / RwLock::write is ready: a read guard is given while no
\* write guard is out, a write guard while no guard at all is out.
CanAcquire(l, mode) ==
    IF mode = "read" THEN l.writer = None
    ELSE l.writer = None /\ l.readers = {}

\* The lock while request r holds its guard of the given mode.
Held(l, r, mode) ==
    IF mode = "read" THEN [l EXCEPT !.readers = @ \cup {r}]
    ELSE [l EXCEPT !.writer = Some(r)]

\* Drop of the guard of request r.
Released(l, r) ==
    [readers |-> l.readers \ {r},
     writer |-> IF l.writer = Some(r) THEN None ELSE l.writer]

\* The request returns res to the handler, which answers it; the guard is
\* dropped with the handler's locals.
Return(r, res) ==
    /\ result' = [result EXCEPT ![r] = Some(res)]
    /\ response' = [response EXCEPT ![r] = Some(HandlerResponse(res))]
    /\ pc' = [pc EXCEPT ![r] = "done"]
    /\ lock' = Released(lock, r)

\* The request awaits the call named next; the handler's guard is held
\* across the await.
Await(r, next) ==
    /\ pc' = [pc EXCEPT ![r] = next]
    /\ lock' = Held(lock, r, HandlerLockMode)
    /\ UNCHANGED <<result, response>>

\* The task of the request unwinds: the handler answers nothing, and the
\* guard is dropped by the unwinding.
Abort(r) ==
    /\ pc' = [pc EXCEPT ![r] = "panicked"]
    /\ lock' = Released(lock, r)
    /\ UNCHANGED <<result, response>>

\* The synchronous head of CoinService::get_current_price and
\* get_price_history: the coin is resolved and the pair is built; then the
\* store read named by read is awaited.
ServiceEnter(r, coin_id, quote_currency, exchange, interval, read) ==
    LET coin == get_coin(coins, coin_id)
    IN IF ~coin.ok
         THEN /\ Return(r, coin)
              /\ UNCHANGED local
         ELSE /\ local' = [local EXCEPT ![r] =
                    [coin |-> coin.val,
                     pair |-> TradingPair(coin.val.symbol,
                                          to_uppercase(quote_currency)),
                     exchange |-> exchange, interval |-> interval,
                     prices |-> <<>>, fetched |-> None, from |-> ""]]
              /\ Await(r, read)

\* handler::get_current_price, up to the first await of the service.
PriceRequest(r, coin_id, currency, exchange) ==
    /\ args' = [args EXCEPT ![r] =
           [NoArgs EXCEPT !.op = "price", !.coin_id = coin_id,
                          !.currency = currency, !.exchange = exchange]]
    /\ IF ~ParseExchange(exchange).ok
         THEN /\ Return(r, ParseExchange(exchange))
              /\ UNCHANGED local
         ELSE ServiceEnter(r, coin_id, CurrencyOrDefault(currency),
                           ParseExchange(exchange).val, "1d",
                           "store.get_current_price")
    /\ UNCHANGED <<coins, store_reads, calls>>

\* handler::list_coins: the guard is taken, the catalog is listed and
\* answered; nothing is awaited in between.
HandlerListCoins(r) ==
    /\ pc[r] = "idle"
    /\ CanAcquire(lock, HandlerLockMode)
    /\ args' = [args EXCEPT ![r] = [NoArgs EXCEPT !.op = "list"]]
    /\ \E listed \in ValuesInAnyOrder(coins) : Return(r, Ok(listed))
    /\ UNCHANGED <<coins, store_reads, local, calls>>

\* A price request with any of the model's parameters.
HandlerGetCurrentPrice(r) ==
    /\ pc[r] = "idle"
    /\ CanAcquire(lock, HandlerLockMode)
    /\ \E coin_id \in CoinIds, currency \in Currencies,
          exchange \in ExchangeParams :
         PriceRequest(r, coin_id, currency, exchange)

\* handler::get_price_history, up to the first await of the service.
HistoryRequest(r, coin_id, currency, exchange, interval, start, end, limit) ==
    /\ args' = [args EXCEPT ![r] =
           [op |-> "history", coin_id |-> coin_id, currency |-> currency,
            exchange |-> exchange, interval |-> interval,
            start |-> start, end |-> end, limit |-> limit]]
    /\ IF ~ParseExchange(exchange).ok
         THEN /\ Return(r, ParseExchange(exchange))
              /\ UNCHANGED local
       ELSE IF ~ParseInterval(interval).ok
         THEN /\ Return(r, ParseInterval(interval))
              /\ UNCHANGED local
       ELSE ServiceEnter(r, coin_id, CurrencyOrDefault(currency),
                         ParseExchange(exchange).val,
                         ParseInterval(interval).val,
                         "store.get_price_history")
    /\ UNCHANGED <<coins, store_reads, calls>>

\* A history request with any of the model's parameters.
HandlerGetPriceHistory(r) ==
    /\ pc[r] = "idle"
    /\ CanAcquire(lock, HandlerLockMode)
    /\ \E coin_id \in CoinIds, currency \in Currencies,
          exchange \in ExchangeParams, interval \in IntervalParams,
          start \in StartTimes, end \in EndTimes, limit \in Limits :
         HistoryRequest(r, coin_id, currency, exchange, interval, start, end,
                        limit)

\* ------------------------------------- CoinService::get_current_price

\* PriceResult without the check for an empty vector.
PriceResultUnchecked(pair, prices) == Ok(prices)

\* The end of get_current_price: an empty vector is an ExchangeError.
PriceResult(pair, prices) ==
    IF prices = <<>>
      THEN Err("ExchangeError",
               <<"Failed to get current price for", pair.base>> \o pair.quote)
      ELSE Ok(prices)

\* PriceCacheHit with the negation lost: an empty answer counts as the hit.
PriceCacheHitNegationLost(out) == out.ok /\ out.val = <<>>

\* `Ok(prices) if !prices.is_empty()`: the store read is a cache hit.
PriceCacheHit(out) == out.ok /\ out.val # <<>>

\* QueriesBoth with the else branch taken for every request.
QueriesBothAlways(exchange) == TRUE

\* `if let Some(ex) = exchange { one connector } else { both }`: Binance is
\* called after Coinbase exactly when no exchange was requested.
QueriesBoth(exchange) == exchange = None

\* The store read, and the match on what it returns.
PriceStoreRead(r) ==
    /\ pc[r] = "store.get_current_price"
    /\ \E now \in Times, later \in Times :
       \E out \in IF store_reads = "simulated"
                    THEN {StoreGetCurrentPrice(local[r].pair,
                                               local[r].exchange, now, later)}
                    ELSE QueryCurrentPriceOutcomes(local[r].pair,
                              local[r].exchange, now, later) :
         /\ calls' = [calls EXCEPT ![r] = Append(@,
                Call("store.get_current_price",
                     [pair |-> local[r].pair, exchange |-> local[r].exchange],
                     out))]
         /\ IF PriceCacheHit(out)
              THEN Return(r, Ok(out.val))
            ELSE IF local[r].exchange = Some("binance")
              THEN Await(r, "binance.get_current_price")
            ELSE Await(r, "coinbase.get_current_price")
    /\ UNCHANGED <<coins, store_reads, args, local>>

\* The call of the Coinbase connector, in either branch.
PriceCoinbaseFrom(r, responses) ==
    /\ pc[r] = "coinbase.get_current_price"
    /\ \E resp \in responses, now \in Times :
         LET out == CoinbaseGetCurrentPrice(local[r].pair, resp, now)
         IN /\ calls' = [calls EXCEPT ![r] = Append(@,
                   UpstreamCall("coinbase.get_current_price", local[r].pair,
                                resp, out))]
            /\ IF out.ok
                 THEN /\ local' = [local EXCEPT ![r].fetched = Some(out.val),
                                                ![r].from = "coinbase"]
                      /\ Await(r, "store.store_current_price")
               ELSE IF QueriesBoth(local[r].exchange)
                 THEN /\ Await(r, "binance.get_current_price")
                      /\ UNCHANGED local
               ELSE /\ Return(r, PriceResult(local[r].pair, local[r].prices))
                    /\ UNCHANGED local
    /\ UNCHANGED <<coins, store_reads, args>>

PriceCoinbase(r) == PriceCoinbaseFrom(r, CoinbaseSpotResponses)

\* The call of the Binance connector, in either branch.
PriceBinanceFrom(r, responses) ==
    /\ pc[r] = "binance.get_current_price"
    /\ \E resp \in responses, now \in Times :
         LET out == BinanceGetCurrentPrice(local[r].pair, resp, now)
         IN /\ calls' = [calls EXCEPT ![r] = Append(@,
                   UpstreamCall("binance.get_current_price", local[r].pair,
                                resp, out))]
            /\ IF out.ok
                 THEN /\ local' = [local EXCEPT ![r].fetched = Some(out.val),
                                                ![r].from = "binance"]
                      /\ Await(r, "store.store_current_price")
               ELSE /\ Return(r, PriceResult(local[r].pair, local[r].prices))
                    /\ UNCHANGED local
    /\ UNCHANGED <<coins, store_reads, args>>

PriceBinance(r) == PriceBinanceFrom(r, BinanceTickerResponses)

\* VecPush putting the price in front of the vector.
VecPushFront(v, x) == <<x>> \o v

\* prices.push(price)
VecPush(v, x) == Append(v, x)

\* PriceStoreWrite with the write dropped: the price is pushed only.
PriceStoreWriteNotIssued(r) ==
    /\ pc[r] = "store.store_current_price"
    /\ LET prices == Append(local[r].prices, Unwrap(local[r].fetched))
       IN /\ local' = [local EXCEPT ![r].prices = prices, ![r].fetched = None]
          /\ IF local[r].from = "coinbase" /\ local[r].exchange = None
               THEN Await(r, "binance.get_current_price")
               ELSE Return(r, Ok(prices))
    /\ UNCHANGED <<coins, store_reads, args, calls>>

\* PriceStoreWrite with `?` on the write: a failed write fails the request.
PriceStoreWritePropagates(r) ==
    /\ pc[r] = "store.store_current_price"
    /\ \E out \in StoreWriteOutcomes :
         LET price == Unwrap(local[r].fetched)
             prices == Append(local[r].prices, price)
         IN /\ calls' = [calls EXCEPT ![r] = Append(@,
                   Call("store.store_current_price", price, out))]
            /\ local' = [local EXCEPT ![r].prices = prices,
                                      ![r].fetched = None]
            /\ IF ~out.ok
                 THEN Return(r, Err("DbError", <<out.err.kind>>))
               ELSE IF local[r].from = "coinbase" /\ local[r].exchange = None
                 THEN Await(r, "binance.get_current_price")
               ELSE Return(r, Ok(prices))
    /\ UNCHANGED <<coins, store_reads, args>>

\* let _ = store.store_current_price(&price).await; prices.push(price);
\* then the Binance call (after Coinbase, no exchange requested) or the end.
PriceStoreWrite(r) ==
    /\ pc[r] = "store.store_current_price"
    /\ \E out \in StoreCurrentPriceOutcomes(Unwrap(local[r].fetched)) :
         LET price == Unwrap(local[r].fetched)
             prices == VecPush(local[r].prices, price)
         IN /\ calls' = [calls EXCEPT ![r] = Append(@,
                   Call("store.store_current_price", price, out))]
            /\ local' = [local EXCEPT ![r].prices = prices,
                                      ![r].fetched = None]
            /\ IF IsPanic(out)
                 THEN Abort(r)
               ELSE IF local[r].from = "coinbase"
                         /\ QueriesBoth(local[r].exchange)
                 THEN Await(r, "binance.get_current_price")
               ELSE Return(r, PriceResult(local[r].pair, prices))
    /\ UNCHANGED <<coins, store_reads, args>>

\* ------------------------------------- CoinService::get_price_history

\* The PriceQuery the service builds for the store.
HistoryQuery(r) ==
    PriceQuery(local[r].pair, local[r].exchange, local[r].interval,
               args[r].start, args[r].end, args[r].limit)

\* What the service hands to a connector's get_price_history.
HistoryArg(r) ==
    [pair |-> local[r].pair, interval |-> local[r].interval,
     start_time |-> args[r].start, end_time |-> args[r].end,
     limit |-> args[r].limit]

\* `Ok(history) if !history.data.is_empty()`: the store read is a cache hit.
HistoryCacheHit(out) == out.ok /\ out.val.data # <<>>

\* FallsBack with no fallback, and with the fallback in every arm.
FallsBackNever(exchange) == FALSE

FallsBackAlways(exchange) == TRUE

\* The arms of `match exchange`: a failure of Coinbase falls back to
\* Binance exactly when no exchange was requested.
FallsBack(exchange) == exchange = None

\* HistoryStoreRead sharing a fetch: after a miss the request takes the
\* history another request has just returned for the same pair, if any.
HistoryStoreReadCoalescing(r) ==
    /\ pc[r] = "store.get_price_history"
    /\ \E now \in Times :
       \E out \in IF store_reads = "simulated"
                    THEN {StoreGetPriceHistory(HistoryQuery(r), now)}
                    ELSE QueryPriceHistoryOutcomes(HistoryQuery(r), now) :
         /\ calls' = [calls EXCEPT ![r] = Append(@,
                Call("store.get_price_history", HistoryQuery(r), out))]
         /\ IF HistoryCacheHit(out)
              THEN Return(r, Ok(out.val))
            ELSE IF \E q \in Requests \ {r} :
                      /\ pc[q] = "done" /\ args[q].op = "history"
                      /\ local[q].pair = local[r].pair
                      /\ Unwrap(result[q]).ok
              THEN Return(r, Unwrap(result[CHOOSE q \in Requests \ {r} :
                                /\ pc[q] = "done" /\ args[q].op = "history"
                                /\ local[q].pair = local[r].pair
                                /\ Unwrap(result[q]).ok]))
            ELSE IF local[r].exchange = Some("binance")
              THEN Await(r, "binance.get_price_history")
            ELSE Await(r, "coinbase.get_price_history")
    /\ UNCHANGED <<coins, store_reads, args, local>>

\* HistoryStoreRead writing a hit back: the history the store returned is
\* handed to store_price_history before it is returned.
HistoryStoreReadRewritesHit(r) ==
    /\ pc[r] = "store.get_price_history"
    /\ \E now \in Times :
       \E out \in IF store_reads = "simulated"
                    THEN {StoreGetPriceHistory(HistoryQuery(r), now)}
                    ELSE QueryPriceHistoryOutcomes(HistoryQuery(r), now) :
         /\ calls' = [calls EXCEPT ![r] = Append(@,
                Call("store.get_price_history", HistoryQuery(r), out))]
         /\ IF HistoryCacheHit(out)
              THEN /\ local' = [local EXCEPT ![r].fetched = Some(out.val),
                                             ![r].from = "store"]
                   /\ Await(r, "store.store_price_history")
            ELSE IF local[r].exchange = Some("binance")
              THEN /\ Await(r, "binance.get_price_history")
                   /\ UNCHANGED local
            ELSE /\ Await(r, "coinbase.get_price_history")
                 /\ UNCHANGED local
    /\ UNCHANGED <<coins, store_reads, args>>

\* The store read, and the match on what it returns.
HistoryStoreRead(r) ==
    /\ pc[r] = "store.get_price_history"
    /\ \E now \in Times :
       \E out \in IF store_reads = "simulated"
                    THEN {StoreGetPriceHistory(HistoryQuery(r), now)}
                    ELSE QueryPriceHistoryOutcomes(HistoryQuery(r), now) :
         /\ calls' = [calls EXCEPT ![r] = Append(@,
                Call("store.get_price_history", HistoryQuery(r), out))]
         /\ IF HistoryCacheHit(out)
              THEN Return(r, Ok(out.val))
            ELSE IF local[r].exchange = Some("binance")
              THEN Await(r, "binance.get_price_history")
            ELSE Await(r, "coinbase.get_price_history")
    /\ UNCHANGED <<coins, store_reads, args, local>>

\* HistoryCoinbaseFrom calling Coinbase again after a failed call.
HistoryCoinbaseRetries(r, responses) ==
    /\ pc[r] = "coinbase.get_price_history"
    /\ \E resp \in responses :
         LET out == CoinbaseGetPriceHistory(local[r].pair, local[r].interval,
                                            args[r].limit, resp)
         IN /\ calls' = [calls EXCEPT ![r] = Append(@,
                   UpstreamCall("coinbase.get_price_history", HistoryArg(r),
                                resp, out))]
            /\ IF IsPanic(out)
                 THEN /\ Abort(r)
                      /\ UNCHANGED local
               ELSE IF out.ok
                 THEN /\ local' = [local EXCEPT ![r].fetched = Some(out.val),
                                                ![r].from = "coinbase"]
                      /\ Await(r, "store.store_price_history")
               ELSE /\ Await(r, "coinbase.get_price_history")
                    /\ UNCHANGED local
    /\ UNCHANGED <<coins, store_reads, args>>

\* HistoryCoinbaseFrom taking a history of no points for a failure: it is
\* not kept, and Binance is tried when no exchange was requested.
HistoryCoinbaseEmptyFails(r, responses) ==
    /\ pc[r] = "coinbase.get_price_history"
    /\ \E resp \in responses :
         LET out == CoinbaseGetPriceHistory(local[r].pair, local[r].interval,
                                            args[r].limit, resp)
         IN /\ calls' = [calls EXCEPT ![r] = Append(@,
                   UpstreamCall("coinbase.get_price_history", HistoryArg(r),
                                resp, out))]
            /\ IF IsPanic(out)
                 THEN /\ Abort(r)
                      /\ UNCHANGED local
               ELSE IF out.ok /\ out.val.data # <<>>
                 THEN /\ local' = [local EXCEPT ![r].fetched = Some(out.val),
                                                ![r].from = "coinbase"]
                      /\ Await(r, "store.store_price_history")
               ELSE IF FallsBack(local[r].exchange)
                 THEN /\ Await(r, "binance.get_price_history")
                      /\ UNCHANGED local
               ELSE /\ Return(r, out)
                    /\ UNCHANGED local
    /\ UNCHANGED <<coins, store_reads, args>>

\* The call of the Coinbase connector: with `?` when Coinbase was requested,
\* with the fallback to Binance when no exchange was.
HistoryCoinbaseFrom(r, responses) ==
    /\ pc[r] = "coinbase.get_price_history"
    /\ \E resp \in responses :
         LET out == CoinbaseGetPriceHistory(local[r].pair, local[r].interval,
                                            args[r].limit, resp)
         IN /\ calls' = [calls EXCEPT ![r] = Append(@,
                   UpstreamCall("coinbase.get_price_history", HistoryArg(r),
                                resp, out))]
            /\ IF IsPanic(out)
                 THEN /\ Abort(r)
                      /\ UNCHANGED local
               ELSE IF out.ok
                 THEN /\ local' = [local EXCEPT ![r].fetched = Some(out.val),
                                                ![r].from = "coinbase"]
                      /\ Await(r, "store.store_price_history")
               ELSE IF FallsBack(local[r].exchange)
                 THEN /\ Await(r, "binance.get_price_history")
                      /\ UNCHANGED local
               ELSE /\ Return(r, out)
                    /\ UNCHANGED local
    /\ UNCHANGED <<coins, store_reads, args>>

HistoryCoinbase(r) == HistoryCoinbaseFrom(r, CoinbaseCandleResponses)

\* The call of the Binance connector, with `?`.
HistoryBinanceFrom(r, responses) ==
    /\ pc[r] = "binance.get_price_history"
    /\ \E resp \in responses :
         LET out == BinanceGetPriceHistory(local[r].pair, local[r].interval,
                                           args[r].limit, resp)
         IN /\ calls' = [calls EXCEPT ![r] = Append(@,
                   UpstreamCall("binance.get_price_history", HistoryArg(r),
                                resp, out))]
            /\ IF IsPanic(out)
                 THEN /\ Abort(r)
                      /\ UNCHANGED local
               ELSE IF out.ok
                 THEN /\ local' = [local EXCEPT ![r].fetched = Some(out.val),
                                                ![r].from = "binance"]
                      /\ Await(r, "store.store_price_history")
               ELSE /\ Return(r, out)
                    /\ UNCHANGED local
    /\ UNCHANGED <<coins, store_reads, args>>

HistoryBinance(r) == HistoryBinanceFrom(r, BinanceCandleResponses)

\* HistoryStoreWrite with the write dropped: the history is returned only.
HistoryStoreWriteNotIssued(r) ==
    /\ pc[r] = "store.store_price_history"
    /\ local' = [local EXCEPT ![r].fetched = None]
    /\ Return(r, Ok(Unwrap(local[r].fetched)))
    /\ UNCHANGED <<coins, store_reads, args, calls>>

\* let _ = store.store_price_history(&history).await; Ok(history)
HistoryStoreWrite(r) ==
    /\ pc[r] = "store.store_price_history"
    /\ \E out \in StorePriceHistoryOutcomes(Unwrap(local[r].fetched)) :
         LET history == Unwrap(local[r].fetched)
         IN /\ calls' = [calls EXCEPT ![r] = Append(@,
                   Call("store.store_price_history", history, out))]
            /\ local' = [local EXCEPT ![r].fetched = None]
            /\ IF IsPanic(out) THEN Abort(r) ELSE Return(r, Ok(history))
    /\ UNCHANGED <<coins, store_reads, args>>

\* The handler answers and the slot takes the next request.
Respond(r) ==
    /\ pc[r] \in {"done", "panicked"}
    /\ pc' = [pc EXCEPT ![r] = "idle"]
    /\ args' = [args EXCEPT ![r] = NoArgs]
    /\ local' = [local EXCEPT ![r] = NoLocal]
    /\ result' = [result EXCEPT ![r] = None]
    /\ response' = [response EXCEPT ![r] = None]
    /\ calls' = [calls EXCEPT ![r] = <<>>]
    /\ UNCHANGED <<coins, store_reads, lock>>

Next ==
    \E r \in Requests :
        \/ HandlerListCoins(r)
        \/ HandlerGetCurrentPrice(r)
        \/ PriceStoreRead(r)
        \/ PriceCoinbase(r)
        \/ PriceBinance(r)
        \/ PriceStoreWrite(r)
        \/ HandlerGetPriceHistory(r)
        \/ HistoryStoreRead(r)
        \/ HistoryCoinbase(r)
        \/ HistoryBinance(r)
        \/ HistoryStoreWrite(r)
        \/ Respond(r)

Spec == Init /\ [][Next]_vars

\* ------------------------------------------------------- every error
\*
\* ApiError::into_response on every common::Error: a handler whose service
\* call fails with an error of any kind.

ErrorMessages ==
    {<<"Coin with ID not found", id>> : id \in CoinIds} \cup {<<"timed out">>}

ServiceFails(r) ==
    /\ pc[r] = "idle"
    /\ CanAcquire(lock, HandlerLockMode)
    /\ \E kind \in ErrorKinds, msg \in ErrorMessages :
         Return(r, Err(kind, msg))
    /\ UNCHANGED <<coins, store_reads, args, local, calls>>

ErrorNext ==
    \E r \in Requests :
        \/ ServiceFails(r)
        \/ Respond(r)

ErrorSpec == Init /\ [][ErrorNext]_vars

\* ------------------------------------------------- every candle list
\*
\* The same service, asked for the history of bitcoin only, with upstreams
\* that answer every candle list of at most MaxCandles candles.

CandleRequest(r) ==
    /\ pc[r] = "idle"
    /\ CanAcquire(lock, HandlerLockMode)
    /\ \E exchange \in {None, Some("coinbase"), Some("binance")},
          limit \in Limits :
         HistoryRequest(r, "bitcoin", None, exchange, None, None, None, limit)

CandleCoinbase(r) == HistoryCoinbaseFrom(r, CoinbaseCandleLists)

CandleBinance(r) ==
    HistoryBinanceFrom(r, BinanceCandleLists \cup {HttpFail})

CandleNext ==
    \E r \in Requests :
        \/ CandleRequest(r)
        \/ HistoryStoreRead(r)
        \/ CandleCoinbase(r)
        \/ CandleBinance(r)
        \/ HistoryStoreWrite(r)
        \/ Respond(r)

CandleSpec == Init /\ [][CandleNext]_vars

\* ------------------------------------------------ the connectors alone
\*
\* The two implementations of ExchangeConnector, called with any pair and
\* any parameters of the model.  The record of a call also holds the GET
\* the connector sent upstream and the clock reading of the call.

\* DateTime::to_rfc3339: the text of the instant, here its seconds and
\* milliseconds behind a tag.
to_rfc3339(t) == <<"rfc3339", t.s, t.ms>>

\* DateTime::timestamp_millis
timestamp_millis(t) == t.s * 1000 + t.ms

\* `end - Duration::seconds(secs)`
MinusSeconds(t, secs) == DateTime(t.s - secs, t.ms)

\* Option::unwrap_or
unwrap_or(o, d) == IF IsSome(o) THEN Unwrap(o) ELSE d

\* The query of the GET that CoinbaseConnector::get_price_history sends:
\* start, end and granularity.  (The limits of the model are far below
\* those at which the subtraction leaves chrono's range.)
CoinbaseCandlesQuery(interval, start_time, end_time, limit, now) ==
    LET end == unwrap_or(end_time, now)
        granularity == coinbase_granularity(interval)
        start == IF IsSome(start_time) THEN Unwrap(start_time)
                 ELSE MinusSeconds(end, granularity * unwrap_or(limit, 300))
    IN [start |-> Some(to_rfc3339(start)), end |-> Some(to_rfc3339(end)),
        granularity |-> Some(granularity), interval |-> None, limit |-> None]

\* The query of the GET that BinanceConnector::get_price_history sends:
\* interval and limit, and startTime and endTime when they were given.
BinanceKlinesQuery(interval, start_time, end_time, limit, now) ==
    LET binance_limit == Min(unwrap_or(limit, 1000), 1000)
    IN [start |-> IF IsSome(start_time)
                    THEN Some(timestamp_millis(Unwrap(start_time))) ELSE None,
        end |-> IF IsSome(end_time)
                  THEN Some(timestamp_millis(Unwrap(end_time))) ELSE None,
        granularity |-> None, interval |-> Some(interval),
        limit |-> Some(binance_limit)]

\* The record of a connector call with the GET it sent.
RequestCall(fn, arg, now, req, resp, ret) ==
    [fn |-> fn, arg |-> arg, now |-> now, req |-> req, resp |-> resp,
     ret |-> ret]

\* The pairs the service can build: a catalog symbol and USD or EUR.
Pairs ==
    {TradingPair(popular_coins[i].symbol, quote) :
        i \in 1..Len(popular_coins),
        quote \in {<<"U", "S", "D">>, <<"E", "U", "R">>}}

ConnectorStartTimes == {None, Some(DateTime(0, 0))}

\* The limits of the model and one above the most Binance serves.
ConnectorLimits == Limits \cup {Some(1001)}

\* The candles endpoints answer a failure or one candle; the candle of
\* Coinbase may carry a time that chrono does not represent.
ConnectorCandleResponses(exchange) ==
    IF exchange = "coinbase"
      THEN {HttpFail,
            Candles(<< CbCandle(JInt(60), JFloat(50000), JFloat(2)) >>),
            Candles(<< CbCandle(JInt(ChronoMaxSecs + 1), JFloat(50000),
                                JFloat(2)) >>)}
      ELSE {HttpFail,
            Candles(<< BnCandle(JInt(60000), JStr("50000.0"), JStr("2.0")) >>)}

\* The caller gets what the connector returned, or its task unwinds.
ConnectorReturn(r, out) ==
    /\ pc' = [pc EXCEPT ![r] = IF IsPanic(out) THEN "panicked" ELSE "done"]
    /\ result' = [result EXCEPT ![r] = IF IsPanic(out) THEN None ELSE Some(out)]
    /\ UNCHANGED <<response, lock>>

\* ExchangeConnector::get_current_price of either connector.
ConnectorGetCurrentPrice(r) ==
    /\ pc[r] = "idle"
    /\ \E pair \in Pairs, now \in Times :
         \/ \E resp \in CoinbaseSpotResponses :
              LET out == CoinbaseGetCurrentPrice(pair, resp, now)
              IN /\ calls' = [calls EXCEPT ![r] = Append(@,
                        UpstreamCall("coinbase.get_current_price", pair, resp,
                                     out))]
                 /\ ConnectorReturn(r, out)
         \/ \E resp \in BinanceTickerResponses :
              LET out == BinanceGetCurrentPrice(pair, resp, now)
              IN /\ calls' = [calls EXCEPT ![r] = Append(@,
                        UpstreamCall("binance.get_current_price", pair, resp,
                                     out))]
                 /\ ConnectorReturn(r, out)
    /\ UNCHANGED <<coins, store_reads, args, local>>

\* ExchangeConnector::get_price_history of either connector, for BTC/USD.
ConnectorGetPriceHistory(r) ==
    /\ pc[r] = "idle"
    /\ \E interval \in PriceIntervals, start \in ConnectorStartTimes,
          end \in EndTimes, limit \in ConnectorLimits, now \in Times :
         LET pair == TradingPair("BTC", <<"U", "S", "D">>)
             arg == [pair |-> pair, interval |-> interval,
                     start_time |-> start, end_time |-> end, limit |-> limit]
         IN \/ \E resp \in ConnectorCandleResponses("coinbase") :
                 LET out == CoinbaseGetPriceHistory(pair, interval, limit, resp)
                     req == CoinbaseCandlesQuery(interval, start, end, limit,
                                                 now)
                 IN /\ calls' = [calls EXCEPT ![r] = Append(@,
                           RequestCall("coinbase.get_price_history", arg, now,
                                       req, resp, out))]
                    /\ ConnectorReturn(r, out)
            \/ \E resp \in ConnectorCandleResponses("binance") :
                 LET out == BinanceGetPriceHistory(pair, interval, limit, resp)
                     req == BinanceKlinesQuery(interval, start, end, limit, now)
                 IN /\ calls' = [calls EXCEPT ![r] = Append(@,
                           RequestCall("binance.get_price_history", arg, now,
                                       req, resp, out))]
                    /\ ConnectorReturn(r, out)
    /\ UNCHANGED <<coins, store_reads, args, local>>

ConnectorNext ==
    \E r \in Requests :
        \/ ConnectorGetCurrentPrice(r)
        \/ ConnectorGetPriceHistory(r)
        \/ Respond(r)

ConnectorSpec == Init /\ [][ConnectorNext]_vars

\* ------------------------------------------------- two requests at once
\*
\* Two requests, each for the list of coins or for bitcoin in USD by either
\* operation, whose steps interleave in any order; the upstreams fail or
\* answer one price or one candle.  The history requests have limit 0, for which the store as
\* shipped has no points.

ConcurrentInit == InitFor({1, 2})

ConcurrentExchanges == {None, Some("binance")}

ConcurrentSpotResponses(exchange) ==
    IF exchange = "coinbase"
      THEN {HttpFail, HttpResponse(200, [wf |-> TRUE, amount |-> "50000.0"])}
      ELSE {HttpFail,
            HttpResponse(200, [wf |-> TRUE, lastPrice |-> "50100.0",
                               volume |-> "2.0"])}

ConcurrentRequest(r) ==
    /\ pc[r] = "idle"
    /\ CanAcquire(lock, HandlerLockMode)
    /\ \E exchange \in ConcurrentExchanges :
         \/ PriceRequest(r, "bitcoin", None, exchange)
         \/ HistoryRequest(r, "bitcoin", None, exchange, None, None, None,
                           Some(0))

ConcurrentPriceCoinbase(r) ==
    PriceCoinbaseFrom(r, ConcurrentSpotResponses("coinbase"))

ConcurrentPriceBinance(r) ==
    PriceBinanceFrom(r, ConcurrentSpotResponses("binance"))

ConcurrentHistoryCoinbase(r) ==
    HistoryCoinbaseFrom(r, ConnectorCandleResponses("coinbase"))

ConcurrentHistoryBinance(r) ==
    HistoryBinanceFrom(r, ConnectorCandleResponses("binance"))

ConcurrentNext ==
    \E r \in Requests :
        \/ HandlerListCoins(r)
        \/ ConcurrentRequest(r)
        \/ PriceStoreRead(r)
        \/ ConcurrentPriceCoinbase(r)
        \/ ConcurrentPriceBinance(r)
        \/ PriceStoreWrite(r)
        \/ HistoryStoreRead(r)
        \/ ConcurrentHistoryCoinbase(r)
        \/ ConcurrentHistoryBinance(r)
        \/ HistoryStoreWrite(r)
        \/ Respond(r)

ConcurrentSpec == ConcurrentInit /\ [][ConcurrentNext]_vars

\* The call that request r awaits returns and the task of r runs on.
ServiceStep(r) ==
    \/ PriceStoreRead(r)
    \/ ConcurrentPriceCoinbase(r)
    \/ ConcurrentPriceBinance(r)
    \/ PriceStoreWrite(r)
    \/ HistoryStoreRead(r)
    \/ ConcurrentHistoryCoinbase(r)
    \/ ConcurrentHistoryBinance(r)
    \/ HistoryStoreWrite(r)

FairNext ==
    \E r \in Requests :
        \/ ConcurrentRequest(r)
        \/ ServiceStep(r)
        \/ Respond(r)

\* One price or history request after the other under a runtime that
\* polls the task when its awaited call has returned, every call returning
\* in the end.
FairSpec ==
    /\ Init
    /\ [][FairNext]_vars
    /\ WF_vars(ServiceStep(1))

\* ------------------------------------------- the quote in either case
\*
\* Two requests for ethereum with no exchange: the first spells its quote
\* currency usd or Eur, the second gives none (USD) or eUR.

CaseCurrencies(r) ==
    IF r = 1 THEN {Some(<<"u", "s", "d">>), Some(<<"E", "u", "r">>)}
    ELSE {None, Some(<<"e", "U", "R">>)}

CaseRequest(r) ==
    /\ pc[r] = "idle"
    /\ CanAcquire(lock, HandlerLockMode)
    /\ \E currency \in CaseCurrencies(r) :
         \/ PriceRequest(r, "ethereum", currency, None)
         \/ HistoryRequest(r, "ethereum", currency, None, None, None, None,
                           Some(0))

CaseNext ==
    \E r \in Requests :
        \/ CaseRequest(r)
        \/ ServiceStep(r)
        \/ Respond(r)

CaseSpec == ConcurrentInit /\ [][CaseNext]_vars

\* ------------------------------------------------- reading the call log

StoreReadFns == {"store.get_current_price", "store.get_price_history"}

StoreWriteFns == {"store.store_current_price", "store.store_price_history"}

ConnectorFns ==
    {"coinbase.get_current_price", "binance.get_current_price",
     "coinbase.get_price_history", "binance.get_price_history"}

IsConnectorCall(c) == c.fn \in ConnectorFns

IsStoreWrite(c) == c.fn \in StoreWriteFns

\* The store read c returned a non-empty result.
NonEmptyRead(c) ==
    /\ c.ret.ok
    /\ IF c.fn = "store.get_current_price" THEN Len(c.ret.val) > 0
       ELSE Len(c.ret.val.data) > 0

\* The connector calls of request r, in order, and its store writes.
ConnectorCalls(r) == SelectSeq(calls[r], IsConnectorCall)

StoreWrites(r) == SelectSeq(calls[r], IsStoreWrite)

Fns(cs) == [i \in 1..Len(cs) |-> cs[i].fn]

\* Request r has read the store and the read was a miss: empty or failed.
Missed(r) ==
    /\ Len(calls[r]) > 0
    /\ calls[r][1].fn \in StoreReadFns
    /\ ~NonEmptyRead(calls[r][1])

\* Request r has returned from the service.
Returned(r) == pc[r] = "done" /\ IsSome(result[r])

Returns(r) == Unwrap(result[r])

\* ---------------------------------------------------------------- claims

\* C1: in get_current_price and in get_price_history, whenever the store
\* read returns a non-empty result, no connector is called for the request
\* and the request returns exactly what the store returned.
C1_CacheHitShortCircuit ==
    \A r \in Requests :
      \A i \in 1..Len(calls[r]) :
        (calls[r][i].fn \in StoreReadFns /\ NonEmptyRead(calls[r][i])) =>
          /\ ConnectorCalls(r) = <<>>
          /\ Returned(r)
          /\ Returns(r) = Ok(calls[r][i].ret.val)

\* A price request served from a store that had a snapshot.
C1_Witness ==
    \E r \in Requests :
      /\ args[r].op = "price"
      /\ Returned(r)
      /\ Len(calls[r]) = 1
      /\ NonEmptyRead(calls[r][1])

C4_HistoryFallback ==
    \A r \in Requests :
      (args[r].op = "history" /\ local[r].exchange = None) =>
        LET cc == ConnectorCalls(r)
        IN /\ Len(cc) > 0 => cc[1].fn = "coinbase.get_price_history"
           /\ \A i \in 1..Len(cc) :
                cc[i].fn = "binance.get_price_history" =>
                  i = 2 /\ ~cc[1].ret.ok /\ ~IsPanic(cc[1].ret)
           /\ (Len(cc) = 1 /\ ~cc[1].ret.ok /\ ~IsPanic(cc[1].ret)) =>
                pc[r] = "binance.get_price_history"
           /\ (Returned(r) /\ Len(cc) = 2) =>
                Returns(r) = cc[2].ret /\ Returns(r) # cc[1].ret

\* Both connectors failed, on a miss of the store as shipped (limit 0), and
\* the error of Binance came back.
C4_Witness ==
    \E r \in Requests :
      /\ args[r].op = "history"
      /\ local[r].exchange = None
      /\ store_reads = "simulated"
      /\ Returned(r)
      /\ Missed(r)
      /\ Len(ConnectorCalls(r)) = 2
      /\ ~ConnectorCalls(r)[1].ret.ok
      /\ ~Returns(r).ok
      /\ Returns(r).err.kind = "ExchangeError"
      /\ ConnectorCalls(r)[1].ret.err.kind = "ParseError"

\* C5: get_price_history with an explicit exchange E calls, on a cache
\* miss, only the connector of E; when that call returns an error the
\* request returns the same error, the other connector is not called and
\* the store is not written.
C5_ExplicitHistoryNoFallback ==
    \A r \in Requests :
      (args[r].op = "history" /\ IsSome(local[r].exchange)) =>
        LET cc == ConnectorCalls(r)
            fn == IF Unwrap(local[r].exchange) = "coinbase"
                    THEN "coinbase.get_price_history"
                    ELSE "binance.get_price_history"
        IN /\ Len(cc) <= 1
           /\ Len(cc) = 1 => cc[1].fn = fn
           /\ (Len(cc) = 1 /\ ~cc[1].ret.ok /\ ~IsPanic(cc[1].ret)) =>
                /\ Returned(r)
                /\ Returns(r) = cc[1].ret
                /\ StoreWrites(r) = <<>>
                /\ Len(calls[r]) = 2

\* Binance was requested, the store as shipped missed, Binance failed.
C5_Witness ==
    \E r \in Requests :
      /\ args[r].op = "history"
      /\ local[r].exchange = Some("binance")
      /\ store_reads = "simulated"
      /\ Returned(r)
      /\ Missed(r)
      /\ ~Returns(r).ok
      /\ Returns(r).err.kind = "HttpError"

\* The first connector a request calls after a miss.
FirstConnectorCall(r) ==
    IF args[r].op = "price"
      THEN IF local[r].exchange = Some("binance")
             THEN "binance.get_current_price"
             ELSE "coinbase.get_current_price"
      ELSE IF local[r].exchange = Some("binance")
             THEN "binance.get_price_history"
             ELSE "coinbase.get_price_history"

Range(s) == {s[i] : i \in 1..Len(s)}

WritesOf(cs, p) ==
    Cardinality({i \in 1..Len(cs) :
        cs[i].fn = "store.store_current_price" /\ cs[i].arg = p})

C8_HistoryWriteBack ==
    \A r \in Requests :
      (args[r].op = "history" /\ Returned(r) /\ Missed(r) /\ Returns(r).ok) =>
        LET n == Len(calls[r])
        IN /\ Fns(StoreWrites(r)) = <<"store.store_price_history">>
           /\ calls[r][n].fn = "store.store_price_history"
           /\ calls[r][n].arg = Returns(r).val
           /\ IsConnectorCall(calls[r][n - 1])
           /\ calls[r][n - 1].ret = Ok(Returns(r).val)

\* The store as shipped missed (limit 0) and Binance returned candles.
C8_Witness ==
    \E r \in Requests :
      /\ args[r].op = "history"
      /\ store_reads = "simulated"
      /\ Returned(r)
      /\ Missed(r)
      /\ Returns(r).ok
      /\ Len(Returns(r).val.data) > 1
      /\ Len(StoreWrites(r)) = 1

\* The ids of the catalog.
ValidCoinIds == {"bitcoin", "ethereum", "ripple", "cardano", "solana"}

\* The handler of request r has called the service with a coin id: its
\* exchange and interval parameters were accepted.
ServiceCalled(r) ==
    /\ pc[r] # "idle"
    /\ args[r].op \in {"price", "history"}
    /\ args[r].exchange \in {None, Some("coinbase"), Some("binance")}
    /\ args[r].interval \in {None} \cup {Some(i) : i \in PriceIntervals}

\* C9: for a coin id that is not in the catalog, get_current_price and
\* get_price_history return NotFound, and neither the store nor a
\* connector is called.
C9_UnknownCoinNotFound ==
    \A r \in Requests :
      (ServiceCalled(r) /\ args[r].coin_id \notin ValidCoinIds) =>
        /\ Returned(r)
        /\ ~Returns(r).ok
        /\ Returns(r).err.kind = "NotFound"
        /\ calls[r] = <<>>

\* get_current_price("doesnotexist", "usd", None) has returned.
C9_Witness ==
    \E r \in Requests :
      /\ args[r].op = "price"
      /\ args[r].coin_id = "doesnotexist"
      /\ args[r].currency = Some(<<"u", "s", "d">>)
      /\ args[r].exchange = None
      /\ Returned(r)
      /\ Returns(r).err.kind = "NotFound"

\* C10: get_coin returns, for every valid id, the coin with that id, and
\* NotFound for every other id.
C10_GetCoin ==
    \A r \in Requests :
      ServiceCalled(r) =>
        IF args[r].coin_id \in ValidCoinIds
          THEN /\ local[r].coin.id = args[r].coin_id
               /\ local[r].coin \in Range(popular_coins)
          ELSE /\ Returned(r)
               /\ ~Returns(r).ok
               /\ Returns(r).err.kind = "NotFound"

\* get_coin("solana") has returned Solana.
C10_Witness ==
    \E r \in Requests :
      /\ ServiceCalled(r)
      /\ args[r].coin_id = "solana"
      /\ local[r].coin = Coin("solana", "Solana", "SOL")

\* ------------------------------------------------ claims on the candles

HistoryFns == {"coinbase.get_price_history", "binance.get_price_history"}

\* The calls of request r in which a connector returned a history.
FetchedHistories(r) ==
    {i \in 1..Len(calls[r]) :
        calls[r][i].fn \in HistoryFns /\ calls[r][i].ret.ok}

\* No point of data is newer than the point before it.
SortedDesc(data) ==
    \A i \in 1..(Len(data) - 1) :
        ~TimeLess(data[i].timestamp, data[i + 1].timestamp)

\* Every point of data is older than the point before it.
StrictlyDesc(data) ==
    \A i \in 1..(Len(data) - 1) :
        TimeLess(data[i + 1].timestamp, data[i].timestamp)

\* C11 as claimed: the data of every history a connector returns is sorted
\* strictly by timestamp descending, also when two candles of the upstream
\* list carry the same timestamp.
C11_StrictlyDescending ==
    \A r \in Requests :
      \A i \in FetchedHistories(r) :
        StrictlyDesc(calls[r][i].ret.val.data)

\* C11 as amended: the data of every history a connector returns is sorted
\* by timestamp descending, for every upstream candle list in any order: no
\* point is newer than the point before it.  Two candles of one timestamp
\* are both kept, so the order is strict only between distinct timestamps.
C11_Descending ==
    \A r \in Requests :
      \A i \in FetchedHistories(r) :
        LET data == calls[r][i].ret.val.data
        IN /\ SortedDesc(data)
           /\ \A j \in 1..(Len(data) - 1) :
                data[j].timestamp # data[j + 1].timestamp =>
                  TimeLess(data[j + 1].timestamp, data[j].timestamp)

\* A connector was answered three candles, the oldest first and two of
\* them of one timestamp, and returned the three points.
C11_Witness ==
    \E r \in Requests :
      \E i \in FetchedHistories(r) :
        LET data == calls[r][i].ret.val.data
            candles == calls[r][i].resp.body.candles
        IN /\ Len(candles) = 3
           /\ Len(data) = 3
           /\ candles[1][1] # candles[2][1]
           /\ candles[1][1] = candles[3][1]
           /\ data[2].timestamp = data[3].timestamp
           /\ TimeLess(data[2].timestamp, data[1].timestamp)

\* The close price of a candle is one the connector fn can read: a number
\* or a string holding one for Coinbase, a string holding one for Binance.
ReadableClose(fn, close) ==
    \/ close.t = "str" /\ close.s \in DOMAIN F64Strings
    \/ fn = "coinbase.get_price_history" /\ close.t \in {"int", "float"}

\* A well-formed candle: six fields or more, an integer time, a readable
\* close price.
WellFormed(fn, candle) ==
    /\ Len(candle) >= 6
    /\ candle[1].t = "int"
    /\ ReadableClose(fn, candle[5])

\* The positions of the well-formed candles of a list.
WellFormedIn(fn, candles) ==
    {j \in 1..Len(candles) : WellFormed(fn, candles[j])}

\* The time a well-formed candle carries: seconds for Coinbase,
\* milliseconds for Binance.
CandleTime(fn, candle) ==
    IF fn = "coinbase.get_price_history" THEN DateTime(candle[1].i, 0)
    ELSE DateTime(candle[1].i \div 1000, candle[1].i % 1000)

\* The calls of request r in which a connector was answered a candle list.
CandleListCalls(r) ==
    {i \in 1..Len(calls[r]) :
        /\ calls[r][i].fn \in HistoryFns
        /\ calls[r][i].resp.transport = "ok"
        /\ is_success(calls[r][i].resp.status)
        /\ calls[r][i].resp.body.wf}

\* C12: when a connector is called with limit = n and is answered a list
\* with k well-formed candles, it returns exactly min(n, k) points, sorted
\* newest first, and none of the well-formed candles is newer than the
\* first point.
C12_TruncatedToLimit ==
    \A r \in Requests :
      \A i \in FetchedHistories(r) :
        LET c == calls[r][i]
            data == c.ret.val.data
            candles == c.resp.body.candles
            wf == WellFormedIn(c.fn, candles)
        IN IsSome(c.arg.limit) =>
             /\ Len(data) = Min(Unwrap(c.arg.limit), Cardinality(wf))
             /\ SortedDesc(data)
             /\ \A j \in wf :
                  Len(data) > 0 =>
                    ~TimeLess(data[1].timestamp, CandleTime(c.fn, candles[j]))

\* C13: a history request with limit = n that returns a history returns at
\* most n points, sorted by timestamp descending, whether the store, the
\* Coinbase connector or the Binance connector served it.
C13_AtMostLimitPoints ==
    \A r \in Requests :
      (args[r].op = "history" /\ Returned(r) /\ Returns(r).ok
         /\ IsSome(args[r].limit)) =>
        /\ Len(Returns(r).val.data) <= Unwrap(args[r].limit)
        /\ SortedDesc(Returns(r).val.data)

\* C14: a connector that is answered a candle list returns Ok, with one
\* point for every well-formed candle of the list when the limit does not
\* cut them; the malformed candles never fail the fetch.
C14_MalformedDropped ==
    \A r \in Requests :
      \A i \in CandleListCalls(r) :
        LET c == calls[r][i]
            k == Cardinality(WellFormedIn(c.fn, c.resp.body.candles))
        IN /\ c.ret.ok
           /\ (c.arg.limit = None \/ k <= Unwrap(c.arg.limit)) =>
                Len(c.ret.val.data) = k

\* ------------------------------------- claims on results and responses

CallsOf(cs, fn) == Cardinality({i \in 1..Len(cs) : cs[i].fn = fn})

\* C16: within one request the store is read at most once and each
\* connector operation is called at most once, whatever the calls return;
\* a request for a known coin reads the store exactly once, before any
\* other call.
C16_NoRetries ==
    \A r \in Requests :
      /\ \A fn \in StoreReadFns \cup ConnectorFns : CallsOf(calls[r], fn) <= 1
      /\ \A i \in 1..Len(calls[r]) :
           calls[r][i].fn \in StoreReadFns => i = 1
      /\ (ServiceCalled(r) /\ args[r].coin_id \in ValidCoinIds
            /\ pc[r] \notin StoreReadFns) =>
           /\ Len(calls[r]) > 0
           /\ calls[r][1].fn \in StoreReadFns

\* The store as shipped had no history (limit 0) and both connectors
\* failed: three calls, and the request ended with the error of Binance.
C16_Witness ==
    \E r \in Requests :
      /\ args[r].op = "history"
      /\ store_reads = "simulated"
      /\ Returned(r)
      /\ ~Returns(r).ok
      /\ Fns(calls[r]) = <<"store.get_price_history",
                           "coinbase.get_price_history",
                           "binance.get_price_history">>
      /\ ~calls[r][2].ret.ok
      /\ ~calls[r][3].ret.ok

\* The exchange and interval parameters a handler accepts.
ValidExchangeParams == {None, Some("coinbase"), Some("binance")}

ValidIntervalParams ==
    {None} \cup {Some(i) : i \in {"1m", "5m", "15m", "1h", "4h", "1d", "1w"}}

\* The handler of request r was given a parameter it does not accept.
BadParameter(r) ==
    \/ args[r].exchange \notin ValidExchangeParams
    \/ args[r].op = "history" /\ args[r].interval \notin ValidIntervalParams

\* C17: a request whose exchange (or, for a history, interval) parameter is
\* not one of the accepted values is answered ParseError with status 400
\* and no store or connector call, also when its coin id is unknown; a
\* request with accepted parameters and an unknown coin id is answered
\* NotFound with status 404.
C17_BadParametersRejected ==
    \A r \in Requests :
      args[r].op \in {"price", "history"} =>
        /\ BadParameter(r) =>
             /\ Returned(r)
             /\ ~Returns(r).ok
             /\ Returns(r).err.kind = "ParseError"
             /\ Unwrap(response[r]).status = 400
             /\ calls[r] = <<>>
        /\ (~BadParameter(r) /\ args[r].coin_id \notin ValidCoinIds) =>
             /\ Returned(r)
             /\ ~Returns(r).ok
             /\ Returns(r).err.kind = "NotFound"
             /\ Unwrap(response[r]).status = 404

\* A history of an unknown coin was asked with an unknown interval.
C17_Witness ==
    \E r \in Requests :
      /\ args[r].op = "history"
      /\ args[r].coin_id = "doesnotexist"
      /\ args[r].exchange = Some("binance")
      /\ args[r].interval = Some("2h")
      /\ Returned(r)
      /\ Unwrap(response[r]).status = 400

\* The status class the claim gives to an error kind.
ClaimedStatus(kind) ==
    CASE kind \in {"ExchangeError", "HttpError"} -> 502
      [] kind = "ParseError" -> 400
      [] kind = "NotFound" -> 404
      [] kind \in {"DbError", "ConfigError", "InternalError"} -> 500

\* C18: an error of any kind is answered with the one status of its kind:
\* 502 for ExchangeError and HttpError, 400 for ParseError, 404 for
\* NotFound, 500 for DbError, ConfigError and InternalError; no error is
\* answered with a status of 200..299.
C18_ErrorStatus ==
    \A r \in Requests :
      (IsSome(result[r]) /\ ~Returns(r).ok) =>
        /\ IsSome(response[r])
        /\ Unwrap(response[r]).status = ClaimedStatus(Returns(r).err.kind)
        /\ ~is_success(Unwrap(response[r]).status)

\* A handler whose service call failed with an HttpError answered 502.
C18_Witness ==
    \E r \in Requests :
      /\ IsSome(result[r])
      /\ ~Returns(r).ok
      /\ Returns(r).err.kind = "HttpError"
      /\ Unwrap(response[r]).status = 502

\* ------------------------------------------ claims on the store's reads

\* C19: PriceStore.get_current_price(pair, exchange) returns at most two
\* entries, no two of them of one exchange, every one with the requested
\* pair, and, when an exchange is requested, every one of that exchange.
C19_CandidateSet ==
    \A r \in Requests :
      \A i \in 1..Len(calls[r]) :
        LET c == calls[r][i]
        IN (c.fn = "store.get_current_price" /\ c.ret.ok) =>
             LET es == c.ret.val
             IN /\ Len(es) <= 2
                /\ \A j, k \in 1..Len(es) :
                     j # k => es[j].exchange # es[k].exchange
                /\ \A j \in 1..Len(es) :
                     /\ es[j].pair = c.arg.pair
                     /\ es[j].exchange \in Exchanges
                     /\ IsSome(c.arg.exchange) =>
                          es[j].exchange = Unwrap(c.arg.exchange)

\* The store as shipped was asked ETH/EUR of Binance and answered one
\* entry; it was asked a pair of no exchange and answered two.
C19_Witness ==
    \E r \in Requests :
      /\ store_reads = "simulated"
      /\ Len(calls[r]) = 1
      /\ calls[r][1].fn = "store.get_current_price"
      /\ calls[r][1].arg.pair = TradingPair("ETH", <<"E", "U", "R">>)
      /\ calls[r][1].arg.exchange = Some("binance")
      /\ Len(calls[r][1].ret.val) = 1

\* C20: PriceStore.get_price_history(query) returns data sorted by
\* timestamp descending, every point of which lies in the range
\* start_time..end_time of the query, with the interval of the query, the
\* exchange of the query when it names one, and at most limit points when
\* it gives a limit.
C20_StoreHistoryFiltered ==
    \A r \in Requests :
      \A i \in 1..Len(calls[r]) :
        LET c == calls[r][i]
        IN (c.fn = "store.get_price_history" /\ c.ret.ok) =>
             LET h == c.ret.val
             IN /\ SortedDesc(h.data)
                /\ \A j \in 1..Len(h.data) :
                     InQueryRange(c.arg, h.data[j].timestamp)
                /\ h.interval = c.arg.interval
                /\ h.pair = c.arg.pair
                /\ IsSome(c.arg.exchange) =>
                     h.exchange = Unwrap(c.arg.exchange)
                /\ IsSome(c.arg.limit) => Len(h.data) <= Unwrap(c.arg.limit)

\* ------------------------------------- claims on the connectors' errors

SpotFns == {"coinbase.get_current_price", "binance.get_current_price"}

\* The string does not read as a number.
NonNumeric(s) == s \notin DOMAIN F64Strings

\* The answer resp to a spot request is a success status with a body that
\* is malformed JSON or has a non-numeric price or volume field.
UnreadableSpot(fn, resp) ==
    /\ resp.transport = "ok"
    /\ is_success(resp.status)
    /\ \/ ~resp.body.wf
       \/ fn = "coinbase.get_current_price" /\ NonNumeric(resp.body.amount)
       \/ fn = "binance.get_current_price"
            /\ (NonNumeric(resp.body.lastPrice) \/ NonNumeric(resp.body.volume))

\* C21: each connector's get_current_price fails with HttpError on a
\* transport failure, with ExchangeError on a non-success HTTP status, and
\* with ParseError on malformed JSON or a non-numeric price or volume field;
\* it returns Ok only when none of these occurred.
C21_SpotErrors ==
    \A r \in Requests :
      \A i \in 1..Len(calls[r]) :
        LET c == calls[r][i]
            transport == c.resp.transport = "fail"
            status == c.resp.transport = "ok" /\ ~is_success(c.resp.status)
            unreadable == UnreadableSpot(c.fn, c.resp)
        IN c.fn \in SpotFns =>
             /\ transport => ~c.ret.ok /\ c.ret.err.kind = "HttpError"
             /\ status => ~c.ret.ok /\ c.ret.err.kind = "ExchangeError"
             /\ unreadable => ~c.ret.ok /\ c.ret.err.kind = "ParseError"
             /\ c.ret.ok => ~transport /\ ~status /\ ~unreadable

\* ------------------------------------------- claims on the service lock

\* The calls a request awaits: the upstream-fetch phase is the second line.
AwaitedCalls == StoreReadFns \cup ConnectorFns \cup StoreWriteFns

\* C22: no request holds an exclusive lock on the service while it awaits a
\* store or connector call: the write guard is never out, a request that
\* awaits a call holds a read guard only, and a request that arrives can
\* always take its guard, whatever the other requests await.
C22_SharedLockOnly ==
    /\ lock.writer = None
    /\ \A r \in Requests :
         /\ pc[r] \in AwaitedCalls => r \in lock.readers
         /\ pc[r] = "idle" => CanAcquire(lock, HandlerLockMode)

\* Two requests are in their upstream-fetch phase at once, after the store
\* as shipped had no history for either.
C22_Witness ==
    /\ Cardinality(Requests) = 2
    /\ store_reads = "simulated"
    /\ \A r \in Requests : pc[r] \in ConnectorFns /\ r \in lock.readers

\* ----------------------------------------------- claims on the catalog

\* The ids of the coins of a set.
Ids(cs) == {c.id : c \in cs}

\* C23: after any sequence and interleaving of list_coins, get_coin,
\* get_current_price and get_price_history calls, successful or failing,
\* the catalog is what construction made it, a set of five coins with five
\* ids, and every list_coins has returned exactly that set, each coin once.
C23_CatalogReadOnly ==
    /\ coins = CoinServiceNew
    /\ Cardinality(list_coins(coins)) = 5
    /\ Cardinality(Ids(list_coins(coins))) = 5
    /\ \A id \in DOMAIN coins : coins[id].id = id
    /\ \A r \in Requests :
         (args[r].op = "list" /\ pc[r] = "done") =>
           /\ Returns(r).ok
           /\ Len(Returns(r).val) = 5
           /\ Range(Returns(r).val) = list_coins(CoinServiceNew)

\* list_coins has returned while the other request, a failing price
\* request, was between its two connector calls.
C23_Witness ==
    \E r, q \in Requests :
      /\ args[r].op = "list"
      /\ pc[r] = "done"
      /\ Returns(r).val[1].id = "solana"
      /\ args[q].op = "price"
      /\ pc[q] = "binance.get_current_price"
      /\ Len(ConnectorCalls(q)) = 1

\* ---------------------------------- claims on the window sent upstream

\* The seconds of one candle of each interval.
IntervalSeconds ==
    [i \in PriceIntervals |->
        CASE i = "1m" -> 60 [] i = "5m" -> 300 [] i = "15m" -> 900
          [] i = "1h" -> 3600 [] i = "4h" -> 14400 [] i = "1d" -> 86400
          [] i = "1w" -> 604800]

\* The window the caller c of get_price_history asks for: it ends at
\* end_time, or at the clock reading of the call, and starts at start_time,
\* or n candles before its end (n is the limit, or dflt).
WindowEnd(c) ==
    IF IsSome(c.arg.end_time) THEN Unwrap(c.arg.end_time) ELSE c.now

WindowStart(c, dflt) ==
    IF IsSome(c.arg.start_time) THEN Unwrap(c.arg.start_time)
    ELSE LET n == IF IsSome(c.arg.limit) THEN Unwrap(c.arg.limit) ELSE dflt
         IN DateTime(WindowEnd(c).s - n * IntervalSeconds[c.arg.interval],
                     WindowEnd(c).ms)

\* The window of 300 candles by default is what the GET of c carries, as
\* RFC 3339 text to Coinbase and as milliseconds to Binance.
SendsWindow(c) ==
    IF c.fn = "coinbase.get_price_history"
      THEN /\ c.req.start = Some(to_rfc3339(WindowStart(c, 300)))
           /\ c.req.end = Some(to_rfc3339(WindowEnd(c)))
      ELSE /\ c.req.start = Some(timestamp_millis(WindowStart(c, 300)))
           /\ c.req.end = Some(timestamp_millis(WindowEnd(c)))

\* The calls of get_price_history of request r made on a connector alone.
WindowCalls(r) ==
    {i \in 1..Len(calls[r]) :
        calls[r][i].fn \in HistoryFns /\ "req" \in DOMAIN calls[r][i]}

\* C24 as claimed: each connector's get_price_history sends upstream a
\* window that ends at end, or at "now" when end is absent, and starts at
\* start, or limit candles (300 by default) of the interval's duration
\* before its end when start is absent.
C24_WindowOfBothConnectors ==
    \A r \in Requests :
      \A i \in WindowCalls(r) : SendsWindow(calls[r][i])

\* C24: the Coinbase connector sends such a window, with the interval's
\* duration of 60, 300, 900, 3600, 14400, 86400 or 604800 seconds as the
\* granularity; the Binance connector sends startTime and endTime only when
\* they are given, and with them the interval and the limit, 1000 when
\* absent and at most 1000.
C24_WindowSentUpstream ==
    \A r \in Requests :
      \A i \in WindowCalls(r) :
        LET c == calls[r][i]
        IN IF c.fn = "coinbase.get_price_history"
             THEN /\ SendsWindow(c)
                  /\ c.req.granularity = Some(IntervalSeconds[c.arg.interval])
             ELSE /\ c.req.start =
                       (IF IsSome(c.arg.start_time)
                          THEN Some(Unwrap(c.arg.start_time).s * 1000
                                      + Unwrap(c.arg.start_time).ms)
                          ELSE None)
                  /\ c.req.end =
                       (IF IsSome(c.arg.end_time)
                          THEN Some(Unwrap(c.arg.end_time).s * 1000
                                      + Unwrap(c.arg.end_time).ms)
                          ELSE None)
                  /\ c.req.interval = Some(c.arg.interval)
                  /\ c.req.limit =
                       (IF ~IsSome(c.arg.limit) THEN Some(1000)
                        ELSE IF Unwrap(c.arg.limit) > 1000 THEN Some(1000)
                        ELSE c.arg.limit)

\* Coinbase was asked weekly candles with no start, no end and no limit at
\* clock reading 1, and was sent the start 300 weeks before.
C24_Witness ==
    \E r \in Requests :
      /\ Len(calls[r]) = 1
      /\ 1 \in WindowCalls(r)
      /\ calls[r][1].arg.interval = "1w"
      /\ calls[r][1].arg.start_time = None
      /\ calls[r][1].arg.end_time = None
      /\ calls[r][1].arg.limit = None
      /\ calls[r][1].now = DateTime(1, 0)
      /\ calls[r][1].fn = "coinbase.get_price_history"
      /\ calls[r][1].req.start = Some(to_rfc3339(DateTime(1 - 181440000, 0)))

\* ------------------------------------ claims on the order of the calls

\* The calls of request r so far are in the order of the state machine: a
\* connector call comes after the store read, which was a miss; a store
\* write comes right after a successful connector call and carries what
\* that call returned; a successful connector call is followed by its
\* write, or the write is what the request awaits; a hit is the only call.
InOrder(r) ==
    LET cs == calls[r]
    IN \A i \in 1..Len(cs) :
         /\ IsConnectorCall(cs[i]) =>
              /\ i > 1
              /\ cs[1].fn \in StoreReadFns
              /\ ~NonEmptyRead(cs[1])
         /\ IsStoreWrite(cs[i]) =>
              /\ i > 1
              /\ IsConnectorCall(cs[i - 1])
              /\ cs[i - 1].ret.ok
              /\ cs[i].arg = cs[i - 1].ret.val
         /\ (IsConnectorCall(cs[i]) /\ cs[i].ret.ok) =>
              IF i < Len(cs) THEN IsStoreWrite(cs[i + 1])
              ELSE pc[r] \in StoreWriteFns
         /\ (cs[i].fn \in StoreReadFns /\ NonEmptyRead(cs[i])) =>
              Len(cs) = 1 /\ Returned(r)

\* Request r has returned, and its log has not grown in the step.
QuietAfterReturn(r) ==
    pc[r] \in {"done", "panicked"} => Len(calls'[r]) <= Len(calls[r])

\* C25: per request, for both operations, the store read precedes every
\* connector call, each store write follows the successful connector call
\* that produced its data, a hit returns at once, and no connector call or
\* store write occurs after the request has returned.
C25_RequestOrder ==
    /\ [](\A r \in Requests : InOrder(r))
    /\ [][\A r \in Requests : QuietAfterReturn(r)]_vars

\* A history request has returned after a miss of the store as shipped, a
\* failed Coinbase call, a successful Binance call and its write.
C25_Witness ==
    \E r \in Requests :
      /\ store_reads = "simulated"
      /\ Returned(r)
      /\ Returns(r).ok
      /\ Fns(calls[r]) = <<"store.get_price_history",
                           "coinbase.get_price_history",
                           "binance.get_price_history",
                           "store.store_price_history">>

\* ------------------------------------------------ claims on termination

\* Request r is inside get_current_price or get_price_history.
InFlight(r) == pc[r] \in AwaitedCalls

\* No more than one store read, two connector calls and two store writes.
WithinCallBounds(r) ==
    /\ Cardinality({i \in 1..Len(calls[r]) :
                       calls[r][i].fn \in StoreReadFns}) <= 1
    /\ Len(ConnectorCalls(r)) <= 2
    /\ Len(StoreWrites(r)) <= 2

\* C26: when every store and connector call returns a value or an error
\* (none unwinds the task), every get_current_price and get_price_history
\* request eventually returns a result or an error, and at every moment it
\* has made at most one store read, two connector calls and two store
\* writes.
C26_Terminates ==
    /\ [](\A r \in Requests : WithinCallBounds(r))
    /\ [](pc[1] # "panicked") => (InFlight(1) ~> Returned(1))

\* A history request has returned the error of Binance after the store as
\* shipped missed and both connectors failed, with no write.
C26_Witness ==
    /\ store_reads = "simulated"
    /\ args[1].op = "history"
    /\ Returned(1)
    /\ ~Returns(1).ok
    /\ Returns(1).err.kind = "HttpError"
    /\ Len(ConnectorCalls(1)) = 2
    /\ Len(StoreWrites(1)) = 0

\* ------------------------------------- claims on single candle fields

\* The time field of the candle is an integer that is a time: seconds for
\* Coinbase, milliseconds for Binance, within the years chrono represents.
UsableTime(fn, candle) ==
    /\ candle[1].t = "int"
    /\ LET secs == IF fn = "coinbase.get_price_history" THEN candle[1].i
                   ELSE candle[1].i \div 1000
       IN -ChronoMaxSecs <= secs /\ secs <= ChronoMaxSecs

\* The positions of the candles of six fields whose time field cannot be
\* turned into a time, and of the well-formed candles whose time field can.
UnusableTimeIn(fn, candles) ==
    {j \in 1..Len(candles) :
        Len(candles[j]) >= 6 /\ ~UsableTime(fn, candles[j])}

UsableIn(fn, candles) ==
    {j \in WellFormedIn(fn, candles) : UsableTime(fn, candles[j])}

\* C27: a candle whose timestamp field is not an integer, or is an integer
\* outside the representable time range, is skipped: the connector that is
\* answered a list with such a candle returns Ok, never unwinds, and gives
\* one point for every other well-formed candle when the limit does not
\* cut them.
C27_UnusableTimeSkipped ==
    \A r \in Requests :
      \A i \in CandleListCalls(r) :
        LET c == calls[r][i]
            candles == c.resp.body.candles
            k == Cardinality(UsableIn(c.fn, candles))
        IN UnusableTimeIn(c.fn, candles) # {} =>
             /\ ~IsPanic(c.ret)
             /\ c.ret.ok
             /\ (c.arg.limit = None \/ k <= Unwrap(c.arg.limit)) =>
                  Len(c.ret.val.data) = k

\* The volume field reads as no number: it is null, or a string that is
\* not a decimal number.
UnparsableVolume(v) ==
    \/ v.t = "null"
    \/ v.t = "str" /\ v.s \notin DOMAIN F64Strings

\* The positions of the well-formed candles with an unparsable volume.
NoVolumeIn(fn, candles) ==
    {j \in WellFormedIn(fn, candles) : UnparsableVolume(candles[j][6])}

\* The close price of a well-formed candle.
ClosePrice(candle) ==
    IF candle[5].t = "str" THEN F64Strings[candle[5].s]
    ELSE IF candle[5].t = "int" THEN candle[5].i
    ELSE candle[5].f

\* C28: in both connectors a candle with a parsable timestamp and close
\* price and an unparsable volume never fails the fetch (a fetch that did
\* not return Ok met a candle whose time is an integer out of range) and,
\* when the limit does not cut the list, is kept: the history has a point of
\* its time and close price with no volume, and as many points with no
\* volume as there are such candles.
C28_VolumeAbsentKept ==
    \A r \in Requests :
      \A i \in CandleListCalls(r) :
        LET c == calls[r][i]
            candles == c.resp.body.candles
            nv == NoVolumeIn(c.fn, candles)
            k == Cardinality(WellFormedIn(c.fn, candles))
        IN nv # {} =>
             /\ ~c.ret.ok =>
                  \E j \in UnusableTimeIn(c.fn, candles) :
                    candles[j][1].t = "int"
             /\ (c.ret.ok
                   /\ (c.arg.limit = None \/ k <= Unwrap(c.arg.limit))) =>
                  LET data == c.ret.val.data
                  IN /\ \A j \in nv :
                          \E n \in 1..Len(data) :
                            /\ data[n].timestamp = CandleTime(c.fn, candles[j])
                            /\ data[n].price = ClosePrice(candles[j])
                            /\ data[n].volume = None
                     /\ Cardinality({n \in 1..Len(data) :
                                        data[n].volume = None})
                          = Cardinality(nv)

\* Binance was answered three candles, two of them without a readable
\* volume, and returned three points, two of them with no volume.
C28_Witness ==
    \E r \in Requests :
      \E i \in CandleListCalls(r) :
        LET c == calls[r][i]
        IN /\ c.fn = "binance.get_price_history"
           /\ Cardinality(NoVolumeIn(c.fn, c.resp.body.candles)) = 2
           /\ c.ret.ok
           /\ Len(c.ret.val.data) = 3
           /\ Cardinality({n \in 1..3 : c.ret.val.data[n].volume = None}) = 2

\* ------------------------------------------- claims on the trading pair

\* The pair a call was made with: the argument of a spot connector call is
\* the pair, every other call carries it in its argument.
PairOf(c) == IF c.fn \in SpotFns THEN c.arg ELSE c.arg.pair

\* The ticker symbols of the catalog.
SymbolOf ==
    [id \in ValidCoinIds |->
        CASE id = "bitcoin" -> "BTC" [] id = "ethereum" -> "ETH"
          [] id = "ripple" -> "XRP" [] id = "cardano" -> "ADA"
          [] id = "solana" -> "SOL"]

\* Two spellings differ in letter case at most.
CasePairs ==
    {{"a", "A"}, {"b", "B"}, {"d", "D"}, {"e", "E"}, {"r", "R"}, {"s", "S"},
     {"u", "U"}}

SameUpToCase(a, b) ==
    /\ Len(a) = Len(b)
    /\ \A i \in 1..Len(a) : a[i] = b[i] \/ {a[i], b[i]} \in CasePairs

\* The quote in capitals of a currency parameter (USD when there is none).
QuoteOf(currency) ==
    IF currency = None THEN <<"U", "S", "D">>
    ELSE CHOOSE q \in {<<"U", "S", "D">>, <<"E", "U", "R">>} :
           SameUpToCase(Unwrap(currency), q)

\* Every call of request r so far was made with the symbol of its coin and
\* its quote in capitals, which uppercasing leaves as it is.
PairOfRequest(r) ==
    \A i \in 1..Len(calls[r]) :
      /\ PairOf(calls[r][i]) =
           TradingPair(SymbolOf[args[r].coin_id], QuoteOf(args[r].currency))
      /\ to_uppercase(PairOf(calls[r][i]).quote) = PairOf(calls[r][i]).quote

\* Requests r and q differ in the letter case of the quote currency only.
DifferInCaseOnly(r, q) ==
    /\ args[r].op = args[q].op
    /\ args[r].op \in {"price", "history"}
    /\ [args[r] EXCEPT !.currency = None] = [args[q] EXCEPT !.currency = None]
    /\ SameUpToCase(CurrencyOrDefault(args[r].currency),
                    CurrencyOrDefault(args[q].currency))

\* C29: the trading pair of the store read, of every connector call and of
\* every store write of a request is (the symbol of the resolved coin, the
\* quote currency in capitals); two requests that differ only in the letter
\* case of the quote currency issue the same call with the same arguments
\* whenever their earlier calls were answered alike; uppercasing the quote
\* again changes nothing.
C29_PairOfEveryCall ==
    /\ \A r \in Requests : PairOfRequest(r)
    /\ \A r, q \in Requests :
         DifferInCaseOnly(r, q) =>
           \A i \in 1..Min(Len(calls[r]), Len(calls[q])) :
             (\A j \in 1..(i - 1) : calls[r][j].ret = calls[q][j].ret) =>
               /\ calls[r][i].fn = calls[q][i].fn
               /\ calls[r][i].arg = calls[q][i].arg

\* A request for ethereum in Eur and one in eUR have each read the store,
\* fetched from Coinbase and written ETH/EUR back.
C29_Witness ==
    /\ Cardinality(Requests) = 2
    /\ args[1].currency = Some(<<"E", "u", "r">>)
    /\ args[2].currency = Some(<<"e", "U", "R">>)
    /\ DifferInCaseOnly(1, 2)
    /\ \A r \in Requests :
         /\ Len(calls[r]) = 3
         /\ IsStoreWrite(calls[r][3])
         /\ PairOf(calls[r][3]) = TradingPair("ETH", <<"E", "U", "R">>)

\* ------------------------------------ claims on concurrent requests

\* The values of the successful calls of a sequence of connector calls.
RECURSIVE Fetched(_)
Fetched(cs) ==
    IF cs = <<>> THEN <<>>
    ELSE IF cs[Len(cs)].ret.ok
      THEN Append(Fetched(SubSeq(cs, 1, Len(cs) - 1)), cs[Len(cs)].ret.val)
    ELSE Fetched(SubSeq(cs, 1, Len(cs) - 1))

\* What the answers that request r itself was given make it return, for a
\* request that has read the store: the store's entries on a hit; the
\* prices fetched, in order, or an ExchangeError when there are none; the
\* history or the error of the last connector call.
AnswerOfOwnCalls(r, res) ==
    LET cs == calls[r]
        cc == ConnectorCalls(r)
    IN IF NonEmptyRead(cs[1]) THEN res = Ok(cs[1].ret.val)
       ELSE IF args[r].op = "price" THEN
              IF Fetched(cc) = <<>>
                THEN ~res.ok /\ res.err.kind = "ExchangeError"
                ELSE res = Ok(Fetched(cc))
       ELSE cc # <<>> /\ res = cc[Len(cc)].ret

\* C30: with two requests in flight in any interleaving, what a request
\* returns is what the answers to its own store read and connector calls
\* determine, whatever the other request does; and a request that returns
\* fetched data has made its own connector calls and its own write of each
\* value fetched (no shared fetch, no lost result).
C30_RequestsIndependent ==
    \A r \in Requests :
      (Returned(r) /\ Len(calls[r]) > 0) =>
        /\ AnswerOfOwnCalls(r, Returns(r))
        /\ Missed(r) =>
             /\ Len(ConnectorCalls(r)) >= 1
             /\ Len(StoreWrites(r)) = Len(Fetched(ConnectorCalls(r)))
             /\ \A i \in 1..Len(StoreWrites(r)) :
                  StoreWrites(r)[i].arg = Fetched(ConnectorCalls(r))[i]

\* Two history requests for the same pair, which the store as shipped does
\* not have, have both returned: one the candle it fetched from Coinbase,
\* the other, for which Coinbase failed, the candle it fetched from Binance.
C30_Witness ==
    /\ Cardinality(Requests) = 2
    /\ store_reads = "simulated"
    /\ \E r, q \in Requests :
         /\ args[r].op = "history" /\ args[q] = args[r]
         /\ Returned(r) /\ Returned(q)
         /\ Returns(r).ok /\ Returns(r).val.exchange = "coinbase"
         /\ Returns(q).ok /\ Returns(q).val.exchange = "binance"
         /\ Len(StoreWrites(r)) = 1 /\ Len(StoreWrites(q)) = 1

\* ------------------------------------------ claims on the shipped store

ConnectorPcs ==
    {"coinbase.get_current_price", "binance.get_current_price",
     "coinbase.get_price_history", "binance.get_price_history"}

\* Request r has reached a connector: it awaits one or has called one.
ReachedConnector(r) ==
    pc[r] \in ConnectorPcs \/ ConnectorCalls(r) # <<>>

\* C31: with the PriceStore as shipped, every get_current_price of the
\* store returns a non-empty Ok, so a price request never reaches a
\* connector and, for a known coin, returns the store's simulated prices;
\* every get_price_history of the store returns Ok, with empty data only
\* when the limit is 0, so a history request reaches a connector only for
\* limit = 0.
C31_ShippedStoreNeverMisses ==
    store_reads = "simulated" =>
      \A r \in Requests :
        /\ \A i \in 1..Len(calls[r]) :
             LET c == calls[r][i]
             IN /\ c.fn = "store.get_current_price" =>
                     c.ret.ok /\ c.ret.val # <<>>
                /\ c.fn = "store.get_price_history" =>
                     /\ c.ret.ok
                     /\ c.ret.val.data = <<>> => c.arg.limit = Some(0)
        /\ args[r].op = "price" =>
             /\ ~ReachedConnector(r)
             /\ (Returned(r) /\ args[r].coin_id \in ValidCoinIds
                             /\ ~BadParameter(r)) =>
                  /\ Len(calls[r]) = 1
                  /\ calls[r][1].fn = "store.get_current_price"
                  /\ Returns(r) = Ok(calls[r][1].ret.val)
        /\ (args[r].op = "history" /\ ReachedConnector(r)) =>
             args[r].limit = Some(0)

\* With the store as shipped a history request of limit 0 for a known coin
\* missed the store, called a connector and returned.
C31_Witness ==
    \E r \in Requests :
      /\ store_reads = "simulated"
      /\ args[r].op = "history"
      /\ args[r].limit = Some(0)
      /\ Returned(r)
      /\ Missed(r)
      /\ calls[r][1].ret.ok
      /\ Len(ConnectorCalls(r)) >= 1

\* ------------------------------------------ claims on an empty history

\* The positions of the log of r at which Coinbase returned a history of
\* no points.
EmptyCoinbaseHistories(r) ==
    {i \in 1..Len(calls[r]) :
        /\ calls[r][i].fn = "coinbase.get_price_history"
        /\ calls[r][i].ret.ok
        /\ calls[r][i].ret.val.data = <<>>}

\* C32: in get_price_history with no exchange, after Coinbase has returned
\* Ok with zero points Binance is not called; the request goes on to write
\* that empty history to the store, once, and returns it as Ok, tagged
\* Coinbase; it does not end in an error.
C32_EmptyHistoryIsSuccess ==
    \A r \in Requests :
      (args[r].op = "history" /\ local[r].exchange = None) =>
        \A i \in EmptyCoinbaseHistories(r) :
          LET h == calls[r][i].ret.val
          IN /\ "binance.get_price_history" \notin Range(Fns(calls[r]))
             /\ pc[r] \in {"store.store_price_history", "done"}
             /\ h.exchange = "coinbase"
             /\ pc[r] = "done" =>
                  /\ Returns(r) = Ok(h)
                  /\ Len(StoreWrites(r)) = 1
                  /\ StoreWrites(r)[1].fn = "store.store_price_history"
                  /\ StoreWrites(r)[1].arg = h
                  /\ calls[r][Len(calls[r])] = StoreWrites(r)[1]
                  /\ Unwrap(response[r]).status = 200

\* No exchange was requested, the store as shipped missed (limit 0), the
\* Coinbase candles endpoint answered an empty list, and the request has
\* returned.
C32_Witness ==
    \E r \in Requests :
      /\ store_reads = "simulated"
      /\ args[r].op = "history"
      /\ args[r].exchange = None
      /\ Returned(r)
      /\ Len(calls[r]) = 3
      /\ calls[r][2].fn = "coinbase.get_price_history"
      /\ calls[r][2].resp = Candles(<<>>)
      /\ calls[r][2].ret.ok
      /\ Returns(r).ok
      /\ Returns(r).val.data = <<>>

\* ------------------------------------------ claims on the store's writes

StoreWritePcs == {"store.store_current_price", "store.store_price_history"}

\* The store write at position i of the log of r is given the value that
\* the call before it, a connector call of the same request, returned.
WritesWhatWasFetched(r, i) ==
    /\ i > 1
    /\ IsConnectorCall(calls[r][i - 1])
    /\ calls[r][i - 1].ret.ok
    /\ calls[r][i].arg = calls[r][i - 1].ret.val

\* C33: every store write of a request is given data that a successful
\* connector call of the same request has just returned.  No store write is
\* issued after a cache hit, for an unknown coin, for a failed connector
\* call, or in a request that returns an error; when a request has ended,
\* its store writes are as many as its successful connector calls (while it
\* runs, one write is outstanding exactly when it awaits the write).
C33_WritesOnlyWhatWasFetched ==
    \A r \in Requests :
      LET writes == Len(StoreWrites(r))
          fetched == Len(Fetched(ConnectorCalls(r)))
      IN /\ \A i \in 1..Len(calls[r]) :
              IsStoreWrite(calls[r][i]) => WritesWhatWasFetched(r, i)
         /\ (calls[r] # <<>> /\ NonEmptyRead(calls[r][1])) => writes = 0
         /\ (Returned(r) /\ ~Returns(r).ok) => writes = 0
         /\ (Returned(r) /\ args[r].op \in {"price", "history"}
                         /\ args[r].coin_id \notin ValidCoinIds) =>
              calls[r] = <<>>
         /\ pc[r] \in {"done", "panicked"} => writes = fetched
         /\ pc[r] \in StoreWritePcs => fetched = writes + 1
         /\ pc[r] \notin StoreWritePcs => writes = fetched

\* With the store as shipped a history request of no exchange missed the
\* store, Coinbase failed, Binance returned a history, and the request has
\* returned: two connector calls, one of them successful, and one write.
C33_Witness ==
    \E r \in Requests :
      /\ store_reads = "simulated"
      /\ args[r].op = "history"
      /\ Returned(r)
      /\ Returns(r).ok
      /\ Len(ConnectorCalls(r)) = 2
      /\ ~ConnectorCalls(r)[1].ret.ok
      /\ ConnectorCalls(r)[2].ret.ok
      /\ Len(StoreWrites(r)) = 1
      /\ StoreWrites(r)[1].arg = Returns(r).val

\* ------------------------------------------ claims on the exchange tag

\* The exchange of the connector of a connector call.
ExchangeOf(c) ==
    IF c.fn \in {"coinbase.get_current_price", "coinbase.get_price_history"}
      THEN "coinbase" ELSE "binance"

\* What the connector call c produced is tagged with its connector's
\* exchange and carries the pair (and, a history, the interval) it was
\* called with.
TaggedAsCalled(c) ==
    /\ c.ret.val.exchange = ExchangeOf(c)
    /\ c.ret.val.pair = PairOf(c)
    /\ c.fn \in HistoryFns => c.ret.val.interval = c.arg.interval

\* C34: every CurrentPrice and PriceHistory a connector produces is tagged
\* with that connector's exchange and carries the pair, and the interval,
\* it was asked for; and a request that names an exchange E is returned
\* entries, or a history, tagged E with the pair (and interval) of the
\* request, whether the store or a connector served it.
C34_ExchangeTag ==
    \A r \in Requests :
      /\ \A i \in 1..Len(calls[r]) :
           (IsConnectorCall(calls[r][i]) /\ calls[r][i].ret.ok) =>
             TaggedAsCalled(calls[r][i])
      /\ (Returned(r) /\ Returns(r).ok /\ calls[r] # <<>>
             /\ IsSome(local[r].exchange)) =>
           LET E == Unwrap(local[r].exchange)
               pair == TradingPair(SymbolOf[args[r].coin_id],
                                   QuoteOf(args[r].currency))
           IN IF args[r].op = "price"
                THEN \A k \in 1..Len(Returns(r).val) :
                       /\ Returns(r).val[k].exchange = E
                       /\ Returns(r).val[k].pair = pair
                ELSE /\ Returns(r).val.exchange = E
                     /\ Returns(r).val.pair = pair
                     /\ Returns(r).val.interval = local[r].interval

\* A history of ETH/EUR was requested of Binance with the interval 1h; the
\* store as shipped missed and the Binance connector returned the history,
\* with points.
C34_Witness ==
    \E r \in Requests :
      /\ store_reads = "simulated"
      /\ args[r].op = "history"
      /\ args[r].coin_id = "ethereum"
      /\ args[r].currency = Some(<<"E", "u", "r">>)
      /\ args[r].exchange = Some("binance")
      /\ args[r].interval = Some("1h")
      /\ Returned(r)
      /\ Returns(r).ok
      /\ Len(ConnectorCalls(r)) = 1
      /\ Returns(r).val.exchange = "binance"
      /\ Returns(r).val.interval = "1h"
      /\ Returns(r).val.pair = TradingPair("ETH", <<"E", "U", "R">>)
      /\ Returns(r).val.data # <<>>

\* ------------------------------------------ claims on the returned prices

====
